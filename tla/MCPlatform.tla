----------------------------- MODULE MCPlatform -----------------------------
(***************************************************************************)
(* The parts of the platform around the festival's own rules: accounts,    *)
(* submissions with their files, and notifications.  They share no         *)
(* variable, so their interleavings show nothing: a behaviour has steps of *)
(* one of them, chosen by `focus`, and the others rest.                    *)
(***************************************************************************)
EXTENDS Accounts, Storage, TLC

CONSTANTS Staff, Recipients, Sockets, Senders, MAX_NOTIFICATIONS

VARIABLES
  focus,
  submission, verified, told, await, work, overtaken, unannounced,
  notifications, isRead, userSockets, devices, since, shown, step, errand, unpushed

submissionVars ==
  <<storageVars, submission, verified, told, await, work, overtaken, unannounced>>

notificationVars ==
  <<notifications, isRead, userSockets, devices, since, shown, step, errand, unpushed>>

Submissions == INSTANCE Submissions WITH pc <- await, job <- work

Notifications == INSTANCE Notifications WITH pc <- step, job <- errand

PlatformInit ==
  /\ Init /\ Submissions!Init /\ Notifications!Init
  /\ \/ focus = "accounts"
     \/ focus = "submissions"
     \/ focus = "notifications"
  /\ focus # "submissions" => ~verified

PlatformNext ==
  \/ focus = "accounts" /\ Next /\ UNCHANGED <<focus, submissionVars, notificationVars>>
  \/ focus = "submissions" /\ Submissions!Next /\ UNCHANGED <<focus, vars, notificationVars>>
  \/ focus = "notifications" /\ Notifications!Next /\ UNCHANGED <<focus, vars, submissionVars>>

platformVars == <<focus, vars, submissionVars, notificationVars>>

PlatformSpec == PlatformInit /\ [][PlatformNext]_platformVars

\* Requests, members of the staff, connections and senders are interchangeable.
Symmetry ==
  Permutations(Requests) \cup Permutations(Staff)
    \cup Permutations(Sockets) \cup Permutations(Senders)

SubmissionsTypeOK == Submissions!SubmissionsTypeOK
FilesAreThere == Submissions!FilesAreThere
StaffIsTold == Submissions!StaffIsTold
DeletedAfterItsFile == Submissions!DeletedAfterItsFile
VerifiedUnlessOvertaken == Submissions!VerifiedUnlessOvertaken

NotificationsTypeOK == Notifications!NotificationsTypeOK
MapHoldsLiveSockets == Notifications!MapHoldsLiveSockets
ConnectedDevicesAreTold == Notifications!ConnectedDevicesAreTold
=============================================================================
