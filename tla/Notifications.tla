--------------------------- MODULE Notifications ----------------------------
(***************************************************************************)
(* NotificationsService and its WebSocket gateway in one process.  A       *)
(* notification is a row first and is pushed, when the save has settled,   *)
(* to the sockets the gateway's map has for its user at that moment.       *)
(* sendToRoles does that for one recipient after the other.  Devices come  *)
(* and go meanwhile; the handlers of the gateway run without an await, and *)
(* a restart loses the map and the connections together.                   *)
(***************************************************************************)
EXTENDS Naturals, SequencesExt

CONSTANTS
  Recipients,        \* users, each with a role that is notified
  Sockets,           \* ids of the connections live at one time
  Senders,           \* use cases in flight that notify
  MAX_NOTIFICATIONS  \* bound on the rows

VARIABLES
  notifications,  \* the rows, oldest first: the userId of each
  isRead,         \* which rows are read
  userSockets,    \* the gateway's map; <<>> stands for no entry
  devices,        \* the live connections: the user in the token of each
  since,          \* history: how many rows there were when it connected
  shown,          \* history: the rows pushed to it
  pc,             \* the await each sender stands at
  job,            \* recipients to come, the row just saved
  unpushed        \* history: rows whose sender ended before pushing

vars == <<notifications, isRead, userSockets, devices, since, shown, pc, job, unpushed>>

gatewayVars == <<userSockets, devices, since, shown>>
rowVars == <<notifications, isRead>>
senderVars == <<pc, job, unpushed>>

NoJob == [todo |-> {}, row |-> 0]

Init ==
  /\ notifications = <<>> /\ isRead = {}
  /\ userSockets = [u \in Recipients |-> <<>>]
  /\ devices = <<>>
  /\ since = [s \in Sockets |-> 0]
  /\ shown = [s \in Sockets |-> {}]
  /\ pc = [w \in Senders |-> "idle"]
  /\ job = [w \in Senders |-> NoJob]
  /\ unpushed = {}

----------------------------------------------------------------------------
\* sendToRoles: the users that have one of the roles are found.
SendToRoles(w, users) ==
  /\ pc[w] = "idle"
  /\ pc' = [pc EXCEPT ![w] = IF users = {} THEN "idle" ELSE "save"]
  /\ job' = [job EXCEPT ![w].todo = users]
  /\ UNCHANGED <<rowVars, gatewayVars, unpushed>>

\* sendNotification: the row of the next recipient is saved.
SaveNotification(w) ==
  /\ pc[w] = "save"
  /\ Len(notifications) < MAX_NOTIFICATIONS
  /\ \E u \in job[w].todo :
       /\ notifications' = Append(notifications, u)
       /\ job' = [job EXCEPT ![w] = [todo |-> @.todo \ {u}, row |-> Len(notifications')]]
  /\ pc' = [pc EXCEPT ![w] = "push"]
  /\ UNCHANGED <<isRead, gatewayVars, unpushed>>

\* Mutant of PushNotification: only the first device of the user.
PushToOneDevice(w) ==
  /\ pc[w] = "push"
  /\ LET sockets == userSockets[notifications[job[w].row]] IN
       shown' = [s \in Sockets |->
                   IF sockets # <<>> /\ s = Head(sockets) THEN shown[s] \cup {job[w].row} ELSE shown[s]]
  /\ pc' = [pc EXCEPT ![w] = IF job[w].todo = {} THEN "idle" ELSE "save"]
  /\ job' = [job EXCEPT ![w].row = 0]
  /\ UNCHANGED <<rowVars, userSockets, devices, since, unpushed>>

\* sendToUser, and on to the next recipient.
PushNotification(w) ==
  /\ pc[w] = "push"
  /\ LET sockets == ToSet(userSockets[notifications[job[w].row]]) IN
       shown' = [s \in Sockets |->
                   IF s \in sockets THEN shown[s] \cup {job[w].row} ELSE shown[s]]
  /\ pc' = [pc EXCEPT ![w] = IF job[w].todo = {} THEN "idle" ELSE "save"]
  /\ job' = [job EXCEPT ![w].row = 0]
  /\ UNCHANGED <<rowVars, userSockets, devices, since, unpushed>>

\* The save is rejected: those still to come are not told.  The row may be
\* there although the answer to its INSERT was lost.
FailSender(w) ==
  /\ pc[w] # "idle"
  /\ pc' = [pc EXCEPT ![w] = "idle"]
  /\ job' = [job EXCEPT ![w] = NoJob]
  /\ unpushed' = unpushed \cup ({job[w].row} \ {0})
  /\ UNCHANGED <<rowVars, gatewayVars>>

\* Mutant of MarkAsRead: whether there is such a row does not matter.
MarkAnyAsRead(id, u) ==
  /\ isRead' = isRead \cup {id}
  /\ UNCHANGED <<notifications, gatewayVars, senderVars>>

\* PATCH notifications/:id/read, of one's own rows.
MarkAsRead(id, u) ==
  /\ id \in DOMAIN notifications
  /\ notifications[id] = u
  /\ isRead' = isRead \cup {id}
  /\ UNCHANGED <<notifications, gatewayVars, senderVars>>

\* PATCH notifications/read-all.
MarkAllAsRead(u) ==
  /\ isRead' = isRead \cup {id \in DOMAIN notifications : notifications[id] = u}
  /\ UNCHANGED <<notifications, gatewayVars, senderVars>>

\* handleConnection with a good token; without one the client is
\* disconnected and the map left alone.
HandleConnection(s, u) ==
  /\ s \notin DOMAIN devices
  /\ devices' = [d \in DOMAIN devices \cup {s} |-> IF d = s THEN u ELSE devices[d]]
  /\ userSockets' = [userSockets EXCEPT ![u] = Append(@, s)]
  /\ since' = [since EXCEPT ![s] = Len(notifications)]
  /\ shown' = [shown EXCEPT ![s] = {}]
  /\ UNCHANGED <<rowVars, senderVars>>

\* Mutant of HandleDisconnect: the user's entry goes with the first device
\* that leaves.
DisconnectUser(s) ==
  /\ s \in DOMAIN devices
  /\ devices' = [d \in DOMAIN devices \ {s} |-> devices[d]]
  /\ userSockets' = [userSockets EXCEPT ![devices[s]] = <<>>]
  /\ UNCHANGED <<rowVars, senderVars, since, shown>>

\* handleDisconnect: the first occurrence is spliced out of every entry.
HandleDisconnect(s) ==
  /\ s \in DOMAIN devices
  /\ devices' = [d \in DOMAIN devices \ {s} |-> devices[d]]
  /\ userSockets' = [u \in Recipients |-> RemoveFirst(userSockets[u], s)]
  /\ UNCHANGED <<rowVars, senderVars, since, shown>>

\* The process restarts.
Restart ==
  /\ userSockets' = [u \in Recipients |-> <<>>]
  /\ devices' = <<>>
  /\ pc' = [w \in Senders |-> "idle"]
  /\ job' = [w \in Senders |-> NoJob]
  /\ unpushed' = unpushed \cup ({job[w].row : w \in Senders} \ {0})
  /\ UNCHANGED <<rowVars, since, shown>>

\* NotificationsController; blast-deadline is a SendToRoles.
NotificationsController ==
  \E u \in Recipients :
    MarkAllAsRead(u) \/ \E id \in 1..MAX_NOTIFICATIONS : MarkAsRead(id, u)

Next ==
  \/ \E w \in Senders :
       \/ \E users \in SUBSET Recipients : SendToRoles(w, users)
       \/ SaveNotification(w)
       \/ PushNotification(w)
       \/ FailSender(w)
  \/ NotificationsController
  \/ \E s \in Sockets :
       \/ \E u \in Recipients : HandleConnection(s, u)
       \/ HandleDisconnect(s)
  \/ Restart

Spec == Init /\ [][Next]_vars

----------------------------------------------------------------------------
\* The variables keep their types.
NotificationsTypeOK ==
  /\ notifications \in Seq(Recipients)
  /\ isRead \subseteq DOMAIN notifications
  /\ DOMAIN devices \subseteq Sockets /\ devices \in [DOMAIN devices -> Recipients]
  /\ userSockets \in [Recipients -> Seq(Sockets)]
  /\ since \in [Sockets -> 0..Len(notifications)]
  /\ shown \in [Sockets -> SUBSET DOMAIN notifications]
  /\ pc \in [Senders -> {"idle", "save", "push"}]
  /\ job \in [Senders -> [todo : SUBSET Recipients, row : 0..Len(notifications)]]
  /\ unpushed \subseteq DOMAIN notifications

\* The map holds, for each user, exactly the live connections made with a
\* token of that user, each once, in whatever order devices come and go:
\* nothing is pushed to a socket that is gone, no entry leaks.
MapHoldsLiveSockets ==
  \A u \in Recipients :
    /\ ToSet(userSockets[u]) = {s \in DOMAIN devices : devices[s] = u}
    /\ Len(userSockets[u]) = Cardinality(ToSet(userSockets[u]))

\* A notification stored while a device of its user was connected, and still
\* is, has been pushed to it, or is about to be, or its sender failed just
\* after the save; and a device sees nobody else's notifications.
ConnectedDevicesAreTold ==
  \A s \in DOMAIN devices :
    /\ \A id \in shown[s] : notifications[id] = devices[s]
    /\ \A id \in DOMAIN notifications :
         id > since[s] /\ notifications[id] = devices[s] =>
           id \in shown[s] \cup unpushed \cup {job[w].row : w \in Senders}
=============================================================================
