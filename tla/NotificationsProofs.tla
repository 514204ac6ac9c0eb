------------------------- MODULE NotificationsProofs ------------------------
(***************************************************************************)
(* Theorems about Notifications, for any set of users, sockets and senders *)
(* and any bound on the rows.                                              *)
(***************************************************************************)
EXTENDS Notifications, FiniteSetTheorems, SequenceTheorems, TLAPS

\* No element occurs twice.
Distinct(s) == \A i, j \in DOMAIN s : s[i] = s[j] => i = j

\* The map holds each live connection once, in the entry of its user.
GatewayInv ==
  \A u \in Recipients :
    /\ Distinct(userSockets[u])
    /\ ToSet(userSockets[u]) = {s \in DOMAIN devices : devices[s] = u}

\* A sender holds a row exactly while it is about to push it.
JobInv ==
  \A w \in Senders :
    IF pc[w] = "push" THEN job[w].row \in DOMAIN notifications ELSE job[w].row = 0

IInv == NotificationsTypeOK /\ GatewayInv /\ JobInv /\ ConnectedDevicesAreTold

----------------------------------------------------------------------------
\* A sequence without repetition is as long as the set of its elements.
LEMMA LenDistinct ==
  ASSUME NEW S, NEW s \in Seq(S), Distinct(s)
  PROVE  Len(s) = Cardinality(ToSet(s))
<1>1. /\ IsFiniteSet(1..Len(s)) /\ Cardinality(1..Len(s)) = Len(s)
      /\ DOMAIN s = 1..Len(s) /\ Len(s) \in Nat
  <2>1. Len(s) \in Nat /\ DOMAIN s = 1..Len(s)
    BY LenProperties
  <2> QED
    BY <2>1, FS_Interval
<1>2. ExistsBijection(1..Len(s), ToSet(s))
  <2>1. [i \in 1..Len(s) |-> s[i]] \in Bijection(1..Len(s), ToSet(s))
    BY <1>1 DEF Distinct, ToSet, Bijection, Injection, Surjection, IsInjective
  <2> QED
    BY <2>1 DEF ExistsBijection
<1> QED
  BY <1>1, <1>2, FS_CountingElements

\* Appending a new element adds it to the set and repeats none.
LEMMA AppendDistinct ==
  ASSUME NEW S, NEW s \in Seq(S), NEW e \in S, Distinct(s), e \notin ToSet(s)
  PROVE  /\ Append(s, e) \in Seq(S)
         /\ Distinct(Append(s, e))
         /\ ToSet(Append(s, e)) = ToSet(s) \cup {e}
<1> DEFINE t == Append(s, e)
<1>1. /\ t \in Seq(S) /\ Len(t) = Len(s) + 1 /\ t[Len(s) + 1] = e
      /\ \A i \in 1..Len(s) : t[i] = s[i]
  BY AppendProperties
<1>2. Len(s) \in Nat /\ DOMAIN s = 1..Len(s) /\ DOMAIN t = 1..Len(s) + 1
  BY <1>1, LenProperties
<1> HIDE DEF t
<1>3. Distinct(t)
  BY <1>1, <1>2 DEF Distinct, ToSet
<1>4. ToSet(t) = ToSet(s) \cup {e}
  <2>1. ASSUME NEW i \in DOMAIN t PROVE t[i] \in ToSet(s) \cup {e}
    BY <1>1, <1>2 DEF ToSet
  <2>2. \A i \in DOMAIN s : s[i] \in ToSet(t)
    BY <1>1, <1>2 DEF ToSet
  <2>3. e \in ToSet(t)
    BY <1>1, <1>2 DEF ToSet
  <2> QED
    BY <2>1, <2>2, <2>3 DEF ToSet
<1> QED
  BY <1>1, <1>3, <1>4 DEF t

\* Splicing the first occurrence out of a sequence that repeats none removes
\* the element from the set.
LEMMA RemoveFirstDistinct ==
  ASSUME NEW S, NEW s \in Seq(S), NEW e, Distinct(s)
  PROVE  /\ RemoveFirst(s, e) \in Seq(S)
         /\ Distinct(RemoveFirst(s, e))
         /\ ToSet(RemoveFirst(s, e)) = ToSet(s) \ {e}
<1>1. Len(s) \in Nat /\ DOMAIN s = 1..Len(s)
  BY LenProperties
<1>2. CASE e \notin ToSet(s)
  <2>1. RemoveFirst(s, e) = s
    BY <1>1, <1>2 DEF RemoveFirst, ToSet
  <2> QED
    BY <1>2, <2>1
<1>3. CASE e \in ToSet(s)
  <2>1. PICK k \in 1..Len(s) : s[k] = e
    BY <1>1, <1>3 DEF ToSet
  <2>2. {i \in 1..Len(s) : s[i] = e} = {k}
    BY <1>1, <2>1 DEF Distinct
  <2>3. Min({k}) = k
    BY DEF Min
  <2>4. RemoveFirst(s, e) = SubSeq(s, 1, k - 1) \o SubSeq(s, k + 1, Len(s))
    BY <2>1, <2>2, <2>3 DEF RemoveFirst, SelectInSeq, RemoveAt
  <2> DEFINE t == RemoveFirst(s, e)
             n == Len(s) - 1
  <2>5. /\ SubSeq(s, 1, k - 1) \in Seq(S) /\ Len(SubSeq(s, 1, k - 1)) = k - 1
        /\ \A i \in 1..k - 1 : SubSeq(s, 1, k - 1)[i] = s[i]
    BY <1>1, <2>1, SubSeqProperties
  <2>6. /\ SubSeq(s, k + 1, Len(s)) \in Seq(S) /\ Len(SubSeq(s, k + 1, Len(s))) = Len(s) - k
        /\ \A i \in 1..Len(s) - k : SubSeq(s, k + 1, Len(s))[i] = s[k + i]
    <3>1. k + 1 \in Int /\ Len(s) \in Int /\ \A i \in k + 1..Len(s) : s[i] \in S
      BY <1>1, <2>1, ElementOfSeq
    <3>2. /\ SubSeq(s, k + 1, Len(s)) \in Seq(S)
          /\ Len(SubSeq(s, k + 1, Len(s))) = IF k + 1 <= Len(s) THEN Len(s) - (k + 1) + 1 ELSE 0
          /\ \A i \in 1..Len(s) - (k + 1) + 1 : SubSeq(s, k + 1, Len(s))[i] = s[k + 1 + i - 1]
      BY <3>1, SubSeqProperties
    <3>3. Len(s) - (k + 1) + 1 = Len(s) - k /\ \A i \in 1..Len(s) - k : k + 1 + i - 1 = k + i
      BY <1>1, <2>1
    <3>4. \A m \in Nat :
            k \in 1..m => (IF k + 1 <= m THEN m - (k + 1) + 1 ELSE 0) = m - k
      OBVIOUS
    <3> QED
      BY <1>1, <2>1, <3>2, <3>3, <3>4
  <2>7. /\ t \in Seq(S) /\ Len(t) = n
        /\ \A i \in 1..n : t[i] = IF i < k THEN s[i] ELSE s[i + 1]
    <3> DEFINE u == SubSeq(s, 1, k - 1)
               v == SubSeq(s, k + 1, Len(s))
    <3> HIDE DEF u, v
    <3>1. /\ u \o v \in Seq(S) /\ Len(u \o v) = Len(u) + Len(v)
          /\ \A i \in 1..Len(u) + Len(v) :
               (u \o v)[i] = IF i <= Len(u) THEN u[i] ELSE v[i - Len(u)]
      BY <2>5, <2>6, ConcatProperties DEF u, v
    <3>2. /\ Len(u) = k - 1 /\ Len(v) = Len(s) - k
          /\ \A i \in 1..k - 1 : u[i] = s[i]
          /\ \A i \in 1..Len(s) - k : v[i] = s[k + i]
      BY <2>5, <2>6 DEF u, v
    <3>3. t = u \o v
      BY <2>4 DEF u, v
    <3>4. ASSUME NEW i \in 1..n PROVE t[i] = IF i < k THEN s[i] ELSE s[i + 1]
      <4>1. CASE i < k
        BY <1>1, <2>1, <3>1, <3>2, <3>3, <4>1
      <4>2. CASE i >= k
        <5>1. i - Len(u) \in 1..Len(s) - k /\ k + (i - Len(u)) = i + 1 /\ ~(i <= Len(u))
          BY <1>1, <2>1, <3>2, <4>2
        <5>2. t[i] = v[i - Len(u)]
          BY <1>1, <2>1, <3>1, <3>2, <3>3, <5>1
        <5> QED
          BY <1>1, <2>1, <3>2, <4>2, <5>1, <5>2
      <4>3. i < k \/ i >= k
        BY <1>1, <2>1
      <4> QED
        BY <4>1, <4>2, <4>3
    <3>5. Len(t) = n
      <4>1. \A m \in Nat : k \in 1..m => k - 1 + (m - k) = m - 1
        OBVIOUS
      <4>2. Len(t) = k - 1 + (Len(s) - k)
        BY <3>1, <3>2, <3>3
      <4> QED
        BY <1>1, <4>1, <4>2
    <3> QED
      BY <3>1, <3>3, <3>4, <3>5
  <2> HIDE DEF t
  <2>8. DOMAIN t = 1..n
    BY <1>1, <2>7, LenProperties
  <2>9. Distinct(t)
    BY <1>1, <2>1, <2>7, <2>8 DEF Distinct
  <2>10. ToSet(t) = ToSet(s) \ {e}
    <3>1. ASSUME NEW i \in 1..n PROVE t[i] \in ToSet(s) \ {e}
      BY <1>1, <2>1, <2>7 DEF Distinct, ToSet
    <3>2. ASSUME NEW i \in 1..Len(s), s[i] # e PROVE s[i] \in ToSet(t)
      <4>1. CASE i < k
        BY <1>1, <2>1, <2>7, <2>8, <4>1 DEF ToSet
      <4>2. CASE i > k
        <5>1. i - 1 \in 1..n /\ t[i - 1] = s[i]
          BY <1>1, <2>1, <2>7, <4>2
        <5> QED
          BY <2>8, <5>1 DEF ToSet
      <4> QED
        BY <2>1, <3>2, <4>1, <4>2
    <3> QED
      BY <1>1, <2>8, <3>1, <3>2 DEF ToSet
  <2> QED
    BY <2>7, <2>9, <2>10 DEF t
<1> QED
  BY <1>2, <1>3

----------------------------------------------------------------------------
\* The initial states satisfy the invariant.
LEMMA InitInv == Init => IInv
<1> SUFFICES ASSUME Init PROVE IInv
  OBVIOUS
<1>1. /\ <<>> \in Seq(Recipients) /\ <<>> \in Seq(Sockets)
      /\ Len(<<>>) = 0 /\ DOMAIN <<>> = {}
  BY EmptySeq
<1>2. NotificationsTypeOK
  <2>1. devices \in [DOMAIN devices -> Recipients] /\ DOMAIN devices \subseteq Sockets
    BY <1>1 DEF Init
  <2>2. since \in [Sockets -> 0..Len(notifications)]
    BY <1>1 DEF Init
  <2>3. job \in [Senders -> [todo : SUBSET Recipients, row : 0..Len(notifications)]]
    BY <1>1 DEF Init, NoJob
  <2> QED
    BY <1>1, <2>1, <2>2, <2>3 DEF Init, NotificationsTypeOK
<1>3. GatewayInv
  BY <1>1 DEF Init, GatewayInv, Distinct, ToSet
<1>4. JobInv
  BY DEF Init, JobInv, NoJob
<1>5. ConnectedDevicesAreTold
  BY <1>1 DEF Init, ConnectedDevicesAreTold
<1> QED
  BY <1>2, <1>3, <1>4, <1>5 DEF IInv

\* A row read: its number is in range.
LEMMA RowsTyped ==
  ASSUME NotificationsTypeOK
  PROVE  /\ DOMAIN notifications = 1..Len(notifications) /\ Len(notifications) \in Nat
         /\ \A id \in DOMAIN notifications : notifications[id] \in Recipients
BY LenProperties, ElementOfSeq DEF NotificationsTypeOK

\* SendToRoles keeps the invariant.
LEMMA SendToRolesInv ==
  ASSUME IInv, NEW w \in Senders, NEW users \in SUBSET Recipients, SendToRoles(w, users)
  PROVE  IInv'
<1>0. NotificationsTypeOK /\ JobInv
  BY DEF IInv
<1> USE DEF SendToRoles, rowVars, gatewayVars
<1>1. /\ pc' \in [Senders -> {"idle", "save", "push"}]
      /\ job' \in [Senders -> [todo : SUBSET Recipients, row : 0..Len(notifications)]]
  BY <1>0 DEF NotificationsTypeOK
<1>2. \A v \in Senders : job'[v].row = job[v].row
  BY <1>0 DEF NotificationsTypeOK
<1>3. NotificationsTypeOK'
  BY <1>0, <1>1 DEF NotificationsTypeOK
<1>4. GatewayInv'
  BY DEF IInv, GatewayInv
<1>5. JobInv'
  BY <1>0, <1>2 DEF JobInv, NotificationsTypeOK
<1>6. ConnectedDevicesAreTold'
  <2>1. {job'[v].row : v \in Senders} = {job[v].row : v \in Senders}
    BY <1>2
  <2> QED
    BY <2>1 DEF IInv, ConnectedDevicesAreTold
<1> QED
  BY <1>3, <1>4, <1>5, <1>6 DEF IInv

\* SaveNotification keeps the invariant.
LEMMA SaveNotificationInv ==
  ASSUME IInv, NEW w \in Senders, SaveNotification(w)
  PROVE  IInv'
<1>0. NotificationsTypeOK /\ JobInv /\ ConnectedDevicesAreTold
  BY DEF IInv
<1> USE DEF SaveNotification, rowVars, gatewayVars
<1>1. PICK u \in job[w].todo :
        /\ notifications' = Append(notifications, u)
        /\ job' = [job EXCEPT ![w] = [todo |-> @.todo \ {u}, row |-> Len(notifications')]]
  OBVIOUS
<1>2. u \in Recipients /\ notifications \in Seq(Recipients)
  BY <1>0 DEF NotificationsTypeOK
<1> DEFINE n == Len(notifications)
<1>3. /\ notifications' \in Seq(Recipients) /\ Len(notifications') = n + 1
      /\ \A id \in 1..n : notifications'[id] = notifications[id]
      /\ notifications'[n + 1] = u
  BY <1>1, <1>2, AppendProperties
<1>4. n \in Nat /\ DOMAIN notifications = 1..n
  BY <1>0, RowsTyped
<1>5. DOMAIN notifications' = 1..n + 1
  BY <1>3, LenProperties
<1> HIDE DEF n
<1>6. job'[w].row = n + 1 /\ \A v \in Senders \ {w} : job'[v] = job[v]
  BY <1>0, <1>1, <1>3 DEF NotificationsTypeOK
<1>7. NotificationsTypeOK'
  <2>1. pc' \in [Senders -> {"idle", "save", "push"}]
    BY <1>0 DEF NotificationsTypeOK
  <2>2. job' \in [Senders -> [todo : SUBSET Recipients, row : 0..n + 1]]
    <3>1. job \in [Senders -> [todo : SUBSET Recipients, row : 0..n + 1]]
      BY <1>0, <1>4 DEF NotificationsTypeOK, n
    <3>2. [todo |-> job[w].todo \ {u}, row |-> n + 1] \in [todo : SUBSET Recipients, row : 0..n + 1]
      BY <1>4, <3>1
    <3> QED
      BY <1>1, <1>3, <3>1, <3>2
  <2>3. since' \in [Sockets -> 0..n + 1]
    BY <1>0, <1>4 DEF NotificationsTypeOK, n
  <2>4. shown' \in [Sockets -> SUBSET (1..n + 1)]
    BY <1>0, <1>4 DEF NotificationsTypeOK
  <2>5. isRead' \subseteq 1..n + 1 /\ unpushed' \subseteq 1..n + 1
    BY <1>0, <1>4 DEF NotificationsTypeOK
  <2>6. DOMAIN devices' \subseteq Sockets /\ devices' \in [DOMAIN devices' -> Recipients]
        /\ userSockets' \in [Recipients -> Seq(Sockets)]
    BY <1>0 DEF NotificationsTypeOK
  <2> QED
    BY <1>3, <1>5, <2>1, <2>2, <2>3, <2>4, <2>5, <2>6 DEF NotificationsTypeOK
<1>8. GatewayInv'
  BY DEF IInv, GatewayInv
<1>9. JobInv'
  <2>1. pc'[w] = "push" /\ job'[w].row \in DOMAIN notifications'
    BY <1>0, <1>4, <1>5, <1>6 DEF NotificationsTypeOK
  <2>2. ASSUME NEW v \in Senders \ {w}
        PROVE  pc'[v] = pc[v] /\ job'[v] = job[v]
    BY <1>0, <1>6 DEF NotificationsTypeOK
  <2> QED
    BY <1>0, <1>4, <1>5, <2>1, <2>2 DEF JobInv
<1>10. ConnectedDevicesAreTold'
  <2> SUFFICES ASSUME NEW s \in DOMAIN devices
               PROVE  /\ \A id \in shown[s] : notifications'[id] = devices[s]
                      /\ \A id \in DOMAIN notifications' :
                           id > since[s] /\ notifications'[id] = devices[s] =>
                             id \in shown[s] \cup unpushed \cup {job'[v].row : v \in Senders}
    BY DEF ConnectedDevicesAreTold
  <2>1. shown[s] \subseteq 1..n
    BY <1>0, <1>4 DEF NotificationsTypeOK
  <2>2. \A id \in shown[s] : notifications'[id] = devices[s]
    BY <1>0, <1>3, <2>1 DEF ConnectedDevicesAreTold
  <2>3. ASSUME NEW id \in 1..n, id > since[s], notifications'[id] = devices[s]
        PROVE  id \in shown[s] \cup unpushed \cup {job'[v].row : v \in Senders}
    <3>1. id \in shown[s] \cup unpushed \cup {job[v].row : v \in Senders}
      BY <1>0, <1>3, <1>4, <2>3 DEF ConnectedDevicesAreTold
    <3>2. job[w].row = 0 /\ id # 0
      BY <1>0, <1>4 DEF JobInv
    <3>3. \A v \in Senders : job[v].row = id => job'[v].row = id
      BY <1>6, <3>2
    <3> QED
      BY <3>1, <3>3
  <2>4. n + 1 \in {job'[v].row : v \in Senders}
    BY <1>6
  <2>5. \A id \in 1..n + 1 : id \in 1..n \/ id = n + 1
    BY <1>4
  <2> QED
    BY <1>5, <2>2, <2>3, <2>4, <2>5
<1> QED
  BY <1>7, <1>8, <1>9, <1>10 DEF IInv

\* PushNotification keeps the invariant.
LEMMA PushNotificationInv ==
  ASSUME IInv, NEW w \in Senders, PushNotification(w)
  PROVE  IInv'
<1>0. NotificationsTypeOK /\ GatewayInv /\ JobInv /\ ConnectedDevicesAreTold
  BY DEF IInv
<1> USE DEF PushNotification, rowVars
<1> DEFINE row == job[w].row
           user == notifications[row]
<1>1. row \in DOMAIN notifications /\ user \in Recipients
  BY <1>0, RowsTyped DEF JobInv
<1>2. DOMAIN notifications = 1..Len(notifications) /\ Len(notifications) \in Nat
  BY <1>0, RowsTyped
<1>3. ToSet(userSockets[user]) = {s \in DOMAIN devices : devices[s] = user}
  BY <1>0, <1>1 DEF GatewayInv
<1>4. \A s \in Sockets :
        shown'[s] = IF s \in ToSet(userSockets[user]) THEN shown[s] \cup {row} ELSE shown[s]
  OBVIOUS
<1>5. job'[w].row = 0 /\ \A v \in Senders \ {w} : job'[v] = job[v]
  BY <1>0 DEF NotificationsTypeOK
<1>6. NotificationsTypeOK'
  <2>1. pc' \in [Senders -> {"idle", "save", "push"}]
    BY <1>0 DEF NotificationsTypeOK
  <2>2. job' \in [Senders -> [todo : SUBSET Recipients, row : 0..Len(notifications)]]
    <3> DEFINE Job == [todo : SUBSET Recipients, row : 0..Len(notifications)]
    <3>1. job[w] \in Job /\ 0 \in 0..Len(notifications)
      BY <1>0, <1>2 DEF NotificationsTypeOK
    <3>2. \A j \in Job : [j EXCEPT !.row = 0] \in Job
      BY <3>1
    <3> QED
      BY <1>0, <3>1, <3>2 DEF NotificationsTypeOK
  <2>3. shown' \in [Sockets -> SUBSET DOMAIN notifications]
    BY <1>0, <1>1 DEF NotificationsTypeOK
  <2> QED
    BY <1>0, <2>1, <2>2, <2>3 DEF NotificationsTypeOK
<1>7. GatewayInv'
  BY <1>0 DEF GatewayInv
<1>8. JobInv'
  <2>1. pc'[w] # "push"
    BY <1>0 DEF NotificationsTypeOK
  <2>2. ASSUME NEW v \in Senders \ {w} PROVE pc'[v] = pc[v]
    BY <1>0 DEF NotificationsTypeOK
  <2> QED
    BY <1>0, <1>5, <2>1, <2>2 DEF JobInv
<1>9. ConnectedDevicesAreTold'
  <2> SUFFICES ASSUME NEW s \in DOMAIN devices
               PROVE  /\ \A id \in shown'[s] : notifications[id] = devices[s]
                      /\ \A id \in DOMAIN notifications :
                           id > since[s] /\ notifications[id] = devices[s] =>
                             id \in shown'[s] \cup unpushed \cup {job'[v].row : v \in Senders}
    BY DEF ConnectedDevicesAreTold
  <2>1. s \in Sockets
    BY <1>0 DEF NotificationsTypeOK
  <2> HIDE DEF PushNotification
  <2>2. shown'[s] = IF devices[s] = user THEN shown[s] \cup {row} ELSE shown[s]
    BY <1>3, <1>4, <2>1
  <2>3. \A id \in shown'[s] : notifications[id] = devices[s]
    BY <1>0, <2>2 DEF ConnectedDevicesAreTold
  <2>4. ASSUME NEW id \in DOMAIN notifications, id > since[s], notifications[id] = devices[s]
        PROVE  id \in shown'[s] \cup unpushed \cup {job'[v].row : v \in Senders}
    <3>1. id \in shown[s] \cup unpushed \cup {job[v].row : v \in Senders}
      BY <1>0, <2>4 DEF ConnectedDevicesAreTold
    <3>2. CASE id = row
      BY <2>2, <2>4, <3>2
    <3>3. CASE id # row
      <4>1. \A v \in Senders : job[v].row = id => job'[v].row = id
        BY <1>5, <3>3
      <4> QED
        BY <2>2, <3>1, <4>1
    <3> QED
      BY <3>2, <3>3
  <2> QED
    BY <2>3, <2>4
<1> QED
  BY <1>6, <1>7, <1>8, <1>9 DEF IInv

\* FailSender keeps the invariant.
LEMMA FailSenderInv ==
  ASSUME IInv, NEW w \in Senders, FailSender(w)
  PROVE  IInv'
<1>0. NotificationsTypeOK /\ GatewayInv /\ JobInv /\ ConnectedDevicesAreTold
  BY DEF IInv
<1> USE DEF FailSender, rowVars, gatewayVars
<1>1. DOMAIN notifications = 1..Len(notifications) /\ Len(notifications) \in Nat
  BY <1>0, RowsTyped
<1>2. job'[w].row = 0 /\ \A v \in Senders \ {w} : job'[v] = job[v]
  BY <1>0 DEF NotificationsTypeOK, NoJob
<1>3. NotificationsTypeOK'
  <2>1. pc' \in [Senders -> {"idle", "save", "push"}]
    BY <1>0 DEF NotificationsTypeOK
  <2>2. job' \in [Senders -> [todo : SUBSET Recipients, row : 0..Len(notifications)]]
    <3>1. NoJob \in [todo : SUBSET Recipients, row : 0..Len(notifications)]
      BY <1>1 DEF NoJob
    <3> QED
      BY <1>0, <3>1 DEF NotificationsTypeOK
  <2>3. unpushed' \subseteq DOMAIN notifications
    BY <1>0 DEF NotificationsTypeOK, JobInv
  <2> QED
    BY <1>0, <2>1, <2>2, <2>3 DEF NotificationsTypeOK
<1>4. GatewayInv'
  BY <1>0 DEF GatewayInv
<1>5. JobInv'
  <2>1. pc'[w] # "push"
    BY <1>0 DEF NotificationsTypeOK
  <2>2. ASSUME NEW v \in Senders \ {w} PROVE pc'[v] = pc[v]
    BY <1>0 DEF NotificationsTypeOK
  <2> QED
    BY <1>0, <1>2, <2>1, <2>2 DEF JobInv
<1>6. ConnectedDevicesAreTold'
  <2> SUFFICES ASSUME NEW s \in DOMAIN devices, NEW id \in DOMAIN notifications,
                      id > since[s], notifications[id] = devices[s]
               PROVE  id \in shown[s] \cup unpushed' \cup {job'[v].row : v \in Senders}
    BY <1>0 DEF ConnectedDevicesAreTold
  <2>1. id \in shown[s] \cup unpushed \cup {job[v].row : v \in Senders}
    BY <1>0 DEF ConnectedDevicesAreTold
  <2>2. job[w].row = id => id \in unpushed'
    BY <1>1
  <2>3. \A v \in Senders \ {w} : job[v].row = id => job'[v].row = id
    BY <1>2
  <2> QED
    BY <2>1, <2>2, <2>3
<1> QED
  BY <1>3, <1>4, <1>5, <1>6 DEF IInv

\* Marking rows as read keeps the invariant.
LEMMA MarkReadInv ==
  ASSUME IInv, NotificationsController
  PROVE  IInv'
<1>1. /\ isRead' \subseteq isRead \cup DOMAIN notifications
      /\ UNCHANGED <<notifications, gatewayVars, senderVars>>
  BY DEF NotificationsController, MarkAllAsRead, MarkAsRead
<1>2. NotificationsTypeOK'
  BY <1>1 DEF IInv, NotificationsTypeOK, gatewayVars, senderVars
<1>3. GatewayInv'
  BY <1>1 DEF IInv, GatewayInv, gatewayVars
<1>4. JobInv'
  BY <1>1 DEF IInv, JobInv, senderVars
<1>5. ConnectedDevicesAreTold'
  BY <1>1 DEF IInv, ConnectedDevicesAreTold, gatewayVars, senderVars
<1> QED
  BY <1>2, <1>3, <1>4, <1>5 DEF IInv

\* HandleConnection keeps the invariant.
LEMMA HandleConnectionInv ==
  ASSUME IInv, NEW s \in Sockets, NEW u \in Recipients, HandleConnection(s, u)
  PROVE  IInv'
<1>0. NotificationsTypeOK /\ GatewayInv /\ JobInv /\ ConnectedDevicesAreTold
  BY DEF IInv
<1> USE DEF HandleConnection, rowVars, senderVars
<1>1. DOMAIN notifications = 1..Len(notifications) /\ Len(notifications) \in Nat
  BY <1>0, RowsTyped
<1>2. /\ DOMAIN devices' = DOMAIN devices \cup {s} /\ devices'[s] = u
      /\ \A d \in DOMAIN devices : devices'[d] = devices[d] /\ d # s
  OBVIOUS
<1>3. /\ userSockets[u] \in Seq(Sockets) /\ Distinct(userSockets[u])
      /\ s \notin ToSet(userSockets[u])
  BY <1>0 DEF NotificationsTypeOK, GatewayInv
<1>4. /\ userSockets'[u] = Append(userSockets[u], s)
      /\ \A v \in Recipients \ {u} : userSockets'[v] = userSockets[v]
  BY <1>0 DEF NotificationsTypeOK
<1>5. /\ userSockets'[u] \in Seq(Sockets)
      /\ Distinct(userSockets'[u])
      /\ ToSet(userSockets'[u]) = ToSet(userSockets[u]) \cup {s}
  BY <1>3, <1>4, AppendDistinct
<1>6. NotificationsTypeOK'
  <2>1. DOMAIN devices' \subseteq Sockets /\ devices' \in [DOMAIN devices' -> Recipients]
    BY <1>0 DEF NotificationsTypeOK
  <2>2. userSockets' \in [Recipients -> Seq(Sockets)]
    BY <1>0, <1>4, <1>5 DEF NotificationsTypeOK
  <2>3. /\ since' \in [Sockets -> 0..Len(notifications)]
        /\ shown' \in [Sockets -> SUBSET DOMAIN notifications]
    BY <1>0, <1>1 DEF NotificationsTypeOK
  <2> QED
    BY <1>0, <2>1, <2>2, <2>3 DEF NotificationsTypeOK
<1>7. GatewayInv'
  <2> HIDE DEF HandleConnection
  <2> SUFFICES ASSUME NEW v \in Recipients
               PROVE  /\ Distinct(userSockets'[v])
                      /\ ToSet(userSockets'[v]) = {d \in DOMAIN devices' : devices'[d] = v}
    BY DEF GatewayInv
  <2>1. Distinct(userSockets[v]) /\ ToSet(userSockets[v]) = {d \in DOMAIN devices : devices[d] = v}
    BY <1>0 DEF GatewayInv
  <2>2. CASE v = u
    BY <1>2, <1>5, <2>1, <2>2
  <2>3. CASE v # u
    BY <1>2, <1>4, <2>1, <2>3
  <2> QED
    BY <2>2, <2>3
<1>8. JobInv'
  BY <1>0 DEF JobInv
<1>9. ConnectedDevicesAreTold'
  <2>1. notifications' = notifications /\ unpushed' = unpushed /\ job' = job
    OBVIOUS
  <2>2. shown'[s] = {} /\ since'[s] = Len(notifications)
    BY <1>0 DEF NotificationsTypeOK
  <2>3. ASSUME NEW d \in DOMAIN devices
        PROVE  shown'[d] = shown[d] /\ since'[d] = since[d]
    BY <1>0, <1>2 DEF NotificationsTypeOK
  <2> HIDE DEF HandleConnection
  <2> SUFFICES ASSUME NEW d \in DOMAIN devices'
               PROVE  /\ \A id \in shown'[d] : notifications[id] = devices'[d]
                      /\ \A id \in DOMAIN notifications :
                           id > since'[d] /\ notifications[id] = devices'[d] =>
                             id \in shown'[d] \cup unpushed \cup {job[v].row : v \in Senders}
    BY <2>1 DEF ConnectedDevicesAreTold
  <2>4. CASE d = s
    BY <1>1, <2>2, <2>4
  <2>5. CASE d \in DOMAIN devices
    BY <1>0, <1>2, <2>3, <2>5 DEF ConnectedDevicesAreTold
  <2> QED
    BY <1>2, <2>4, <2>5
<1> QED
  BY <1>6, <1>7, <1>8, <1>9 DEF IInv

\* HandleDisconnect keeps the invariant.
LEMMA HandleDisconnectInv ==
  ASSUME IInv, NEW s \in Sockets, HandleDisconnect(s)
  PROVE  IInv'
<1>0. NotificationsTypeOK /\ GatewayInv /\ JobInv /\ ConnectedDevicesAreTold
  BY DEF IInv
<1> USE DEF HandleDisconnect, rowVars, senderVars
<1>1. /\ DOMAIN devices' = DOMAIN devices \ {s}
      /\ \A d \in DOMAIN devices' : devices'[d] = devices[d]
  OBVIOUS
<1>2. ASSUME NEW u \in Recipients
      PROVE  /\ userSockets'[u] \in Seq(Sockets)
             /\ Distinct(userSockets'[u])
             /\ ToSet(userSockets'[u]) = {d \in DOMAIN devices' : devices'[d] = u}
  <2>1. /\ userSockets[u] \in Seq(Sockets) /\ Distinct(userSockets[u])
        /\ ToSet(userSockets[u]) = {d \in DOMAIN devices : devices[d] = u}
    BY <1>0 DEF NotificationsTypeOK, GatewayInv
  <2>2. userSockets'[u] = RemoveFirst(userSockets[u], s)
    OBVIOUS
  <2>3. /\ userSockets'[u] \in Seq(Sockets)
        /\ Distinct(userSockets'[u])
        /\ ToSet(userSockets'[u]) = ToSet(userSockets[u]) \ {s}
    BY <2>1, <2>2, RemoveFirstDistinct
  <2> HIDE DEF HandleDisconnect
  <2> QED
    BY <1>1, <2>1, <2>3
<1>3. NotificationsTypeOK'
  <2>1. DOMAIN devices' \subseteq Sockets /\ devices' \in [DOMAIN devices' -> Recipients]
    BY <1>0 DEF NotificationsTypeOK
  <2>2. userSockets' \in [Recipients -> Seq(Sockets)]
    BY <1>2
  <2> QED
    BY <1>0, <2>1, <2>2 DEF NotificationsTypeOK
<1>4. GatewayInv'
  BY <1>2 DEF GatewayInv
<1>5. JobInv'
  BY <1>0 DEF JobInv
<1>6. ConnectedDevicesAreTold'
  BY <1>0, <1>1 DEF ConnectedDevicesAreTold
<1> QED
  BY <1>3, <1>4, <1>5, <1>6 DEF IInv

\* Restart keeps the invariant.
LEMMA RestartInv ==
  ASSUME IInv, Restart
  PROVE  IInv'
<1>0. NotificationsTypeOK /\ GatewayInv /\ JobInv
  BY DEF IInv
<1> USE DEF Restart, rowVars
<1>1. DOMAIN notifications = 1..Len(notifications) /\ Len(notifications) \in Nat
  BY <1>0, RowsTyped
<1>2. <<>> \in Seq(Sockets) /\ DOMAIN <<>> = {} /\ Len(<<>>) = 0
  BY EmptySeq
<1>3. NotificationsTypeOK'
  <2>1. unpushed' \subseteq DOMAIN notifications
    BY <1>0 DEF NotificationsTypeOK, JobInv
  <2>2. job' \in [Senders -> [todo : SUBSET Recipients, row : 0..Len(notifications)]]
    BY <1>1 DEF NoJob
  <2>3. /\ DOMAIN devices' \subseteq Sockets /\ devices' \in [DOMAIN devices' -> Recipients]
        /\ userSockets' \in [Recipients -> Seq(Sockets)]
    BY <1>2
  <2> QED
    BY <1>0, <2>1, <2>2, <2>3 DEF NotificationsTypeOK
<1>4. GatewayInv'
  BY <1>2 DEF GatewayInv, Distinct, ToSet
<1>5. JobInv'
  BY DEF JobInv, NoJob
<1>6. ConnectedDevicesAreTold'
  BY <1>2 DEF ConnectedDevicesAreTold
<1> QED
  BY <1>3, <1>4, <1>5, <1>6 DEF IInv

\* Every step keeps the invariant.
LEMMA NextInv == IInv /\ [Next]_vars => IInv'
<1> SUFFICES ASSUME IInv, [Next]_vars PROVE IInv'
  OBVIOUS
<1>1. ASSUME NEW w \in Senders, NEW users \in SUBSET Recipients, SendToRoles(w, users)
      PROVE  IInv'
  BY <1>1, SendToRolesInv
<1>2. ASSUME NEW w \in Senders, SaveNotification(w) PROVE IInv'
  BY <1>2, SaveNotificationInv
<1>3. ASSUME NEW w \in Senders, PushNotification(w) PROVE IInv'
  BY <1>3, PushNotificationInv
<1>4. ASSUME NEW w \in Senders, FailSender(w) PROVE IInv'
  BY <1>4, FailSenderInv
<1>5. CASE NotificationsController
  BY <1>5, MarkReadInv
<1>6. ASSUME NEW s \in Sockets, NEW u \in Recipients, HandleConnection(s, u) PROVE IInv'
  BY <1>6, HandleConnectionInv
<1>7. ASSUME NEW s \in Sockets, HandleDisconnect(s) PROVE IInv'
  BY <1>7, HandleDisconnectInv
<1>8. CASE Restart
  BY <1>8, RestartInv
<1>9. CASE UNCHANGED vars
  BY <1>9 DEF vars, IInv, NotificationsTypeOK, GatewayInv, JobInv, ConnectedDevicesAreTold
<1> QED
  BY <1>1, <1>2, <1>3, <1>4, <1>5, <1>6, <1>7, <1>8, <1>9 DEF Next

----------------------------------------------------------------------------
\* In every state the map holds each live connection once, a sender's row is
\* the one it saved, and who is connected has been told what is to be told.
THEOREM Invariance == Spec => []IInv
<1> QED
  BY InitInv, NextInv, PTL DEF Spec

\* The variables of the service and its gateway keep their types.
THEOREM TypeCorrect == Spec => []NotificationsTypeOK
<1>1. IInv => NotificationsTypeOK
  BY DEF IInv
<1> QED
  BY <1>1, Invariance, PTL

\* handleConnection and handleDisconnect keep the map exact, in whatever order
\* any number of devices of any number of users come and go.
THEOREM MapIsExact == Spec => []MapHoldsLiveSockets
<1>1. IInv => MapHoldsLiveSockets
  <2> SUFFICES ASSUME IInv, NEW u \in Recipients
               PROVE  /\ ToSet(userSockets[u]) = {s \in DOMAIN devices : devices[s] = u}
                      /\ Len(userSockets[u]) = Cardinality(ToSet(userSockets[u]))
    BY DEF MapHoldsLiveSockets
  <2>1. userSockets[u] \in Seq(Sockets) /\ Distinct(userSockets[u])
    BY DEF IInv, NotificationsTypeOK, GatewayInv
  <2> QED
    BY <2>1, LenDistinct DEF IInv, GatewayInv
<1> QED
  BY <1>1, Invariance, PTL

\* sendToUser reaches every device of the user that was connected when the row
\* was saved and still is, and no device of anybody else.
THEOREM DevicesAreTold == Spec => []ConnectedDevicesAreTold
<1>1. IInv => ConnectedDevicesAreTold
  BY DEF IInv
<1> QED
  BY <1>1, Invariance, PTL
=============================================================================
