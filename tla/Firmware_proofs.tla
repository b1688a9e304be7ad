-------------------------- MODULE Firmware_proofs ---------------------------
(***************************************************************************)
(* What holds of the device for any hosts, owners, thresholds and studies: *)
(* an update never leaves it without an image to boot and never takes back *)
(* one that has answered a push; only the button, or as many refusals as   *)
(* it takes with no address between them, erase its network; the battery   *)
(* label is never stale.                                                   *)
(***************************************************************************)
EXTENDS Firmware, TLAPS

\* What is running is complete and past its trial, or in it.
RunningSound ==
  /\ image[running] = "whole"
  /\ rollback => state[running] \in {"valid", "pending"}
  /\ rollback /\ done => state[running] = "valid"

\* An upload has the mutex, and is not begun while the running image is on trial;
\* until it is sealed, what runs is what boots.
UploadSound ==
  /\ upload # "none" => mutex
  /\ upload \in {"taken", "writing", "written", "ended"} => boot = running
  /\ upload \in {"writing", "written", "ended", "sealed"} =>
       /\ rollback => state[running] = "valid"
       /\ boot = running => O!Other(running) \notin kept
  /\ upload = "ended" => image[O!Other(running)] = "whole"
  /\ upload = "sealed" => boot # running

\* A sealed image is complete and new, has answered nothing, and waits for the
\* restart with the mutex taken; the image on trial has a good one to fall back to.
BootSound ==
  /\ boot # running =>
       /\ mutex
       /\ image[boot] = "whole" /\ boot \notin kept
       /\ rollback => state[running] = "valid" /\ state[boot] = "new"
  /\ boot = running /\ rollback /\ state[boot] = "pending" =>
       /\ image[O!Other(boot)] = "whole"
       /\ state[O!Other(boot)] = "valid"

OtaInv ==
  /\ O!TypeOK
  /\ RunningSound
  /\ UploadSound
  /\ BootSound
  /\ PushKeepsImage

OtaStep ==
  \/ O!Restart
  \/ O!Take \/ O!Begin \/ O!Write \/ O!Seal \/ O!Drop
  \/ \E good \in BOOLEAN : O!End(good)
  \/ \E started \in BOOLEAN : O!Arm(started)
  \/ \E ok \in BOOLEAN : (ok \/ ~done) /\ O!Confirm(ok)

-----------------------------------------------------------------------------
(* The two partitions.                                                     *)

LEMMA TwoPartitions ==
  ASSUME NEW p \in O!Partitions
  PROVE  /\ O!Other(p) \in O!Partitions
         /\ O!Other(p) # p
         /\ O!Other(O!Other(p)) = p
         /\ \A q \in O!Partitions : q = p \/ q = O!Other(p)
<1>1. \A r \in O!Partitions : O!Other(r) \in O!Partitions /\ O!Other(r) # r
  <2> SUFFICES ASSUME NEW r \in O!Partitions
               PROVE  O!Other(r) \in O!Partitions /\ O!Other(r) # r
    OBVIOUS
  <2>1. \E q \in O!Partitions : q # r
    BY DEF O!Partitions
  <2> QED BY <2>1 DEF O!Other
<1> QED BY <1>1 DEF O!Partitions

-----------------------------------------------------------------------------
(* OtaInv is inductive.                                                    *)

LEMMA OtaInit == Init => OtaInv
<1> SUFFICES ASSUME Init PROVE OtaInv
  OBVIOUS
<1>1. O!Init
  BY DEF Init
<1>2. O!TypeOK
  BY <1>1 DEF O!Init, O!TypeOK, O!Partitions, O!ImageStates
<1> QED BY <1>1, <1>2 DEF O!Init, OtaInv, RunningSound, UploadSound, BootSound,
            PushKeepsImage, O!PushKeepsImage, O!Partitions

LEMMA RestartKeeps == OtaInv /\ O!Restart => OtaInv'
<1> SUFFICES ASSUME OtaInv, O!Restart PROVE OtaInv'
  OBVIOUS
<1> USE DEF O!Restart, O!Boots, O!Unproved
<1>1. O!TypeOK'
  BY TwoPartitions DEF OtaInv, O!TypeOK, O!ImageStates
<1>2. PushKeepsImage'
  BY DEF OtaInv, O!TypeOK, BootSound, RunningSound, PushKeepsImage, O!PushKeepsImage
<1>3. RunningSound' /\ UploadSound' /\ BootSound'
  BY TwoPartitions DEF OtaInv, O!TypeOK, BootSound, RunningSound, UploadSound
<1> QED BY <1>1, <1>2, <1>3 DEF OtaInv

LEMMA UploadKeeps ==
  ASSUME OtaInv,
         \/ O!Take \/ O!Begin \/ O!Write \/ O!Seal \/ O!Drop
         \/ \E good \in BOOLEAN : O!End(good)
         \/ \E started \in BOOLEAN : O!Arm(started)
  PROVE  OtaInv'
<1> USE DEF O!target, O!flashVars
<1>t. running \in O!Partitions /\ boot \in O!Partitions
  BY DEF OtaInv, O!TypeOK
<1>1. CASE O!Take
  BY <1>1, <1>t, TwoPartitions DEF O!Take, OtaInv, O!TypeOK, RunningSound, UploadSound,
     BootSound, PushKeepsImage, O!PushKeepsImage
<1>2. CASE O!Begin
  BY <1>2, <1>t, TwoPartitions DEF O!Begin, OtaInv, O!TypeOK, RunningSound, UploadSound,
     BootSound, PushKeepsImage, O!PushKeepsImage
<1>3. CASE O!Write
  BY <1>3, <1>t, TwoPartitions DEF O!Write, OtaInv, O!TypeOK, RunningSound, UploadSound,
     BootSound, PushKeepsImage, O!PushKeepsImage
<1>4. CASE O!Seal
  BY <1>4, <1>t, TwoPartitions DEF O!Seal, OtaInv, O!TypeOK, O!ImageStates, RunningSound,
     UploadSound, BootSound, PushKeepsImage, O!PushKeepsImage
<1>5. CASE O!Drop
  BY <1>5, <1>t, TwoPartitions DEF O!Drop, OtaInv, O!TypeOK, RunningSound, UploadSound,
     BootSound, PushKeepsImage, O!PushKeepsImage
<1>6. ASSUME NEW good \in BOOLEAN, O!End(good) PROVE OtaInv'
  BY <1>6, <1>t, TwoPartitions DEF O!End, OtaInv, O!TypeOK, RunningSound, UploadSound,
     BootSound, PushKeepsImage, O!PushKeepsImage
<1>7. ASSUME NEW started \in BOOLEAN, O!Arm(started) PROVE OtaInv'
  BY <1>7, <1>t, TwoPartitions DEF O!Arm, OtaInv, O!TypeOK, RunningSound, UploadSound,
     BootSound, PushKeepsImage, O!PushKeepsImage
<1> QED BY <1>1, <1>2, <1>3, <1>4, <1>5, <1>6, <1>7

LEMMA ConfirmKeeps ==
  ASSUME OtaInv, NEW ok \in BOOLEAN, ok \/ ~done, O!Confirm(ok)
  PROVE  OtaInv'
<1>t. running \in O!Partitions /\ boot \in O!Partitions
  BY DEF OtaInv, O!TypeOK
<1>1. O!TypeOK'
  BY DEF O!Confirm, OtaInv, O!TypeOK, O!ImageStates
<1>2. RunningSound' /\ UploadSound' /\ BootSound'
  BY <1>t, TwoPartitions DEF O!Confirm, OtaInv, O!TypeOK, RunningSound, UploadSound,
     BootSound
<1>3. PushKeepsImage'
  BY <1>t DEF O!Confirm, OtaInv, O!TypeOK, RunningSound, PushKeepsImage,
     O!PushKeepsImage
<1> QED BY <1>1, <1>2, <1>3 DEF OtaInv

-----------------------------------------------------------------------------
(* Of the steps of the device, restarts, uploads and the confirmation by a *)
(* push are the only ones that concern the update.                         *)

LEMMA Serves == Serve => OtaStep \/ UNCHANGED ota
<1> SUFFICES ASSUME Serve PROVE OtaStep \/ UNCHANGED ota
  OBVIOUS
<1>1. CASE \E ok \in BOOLEAN : Confirm(ok)
  BY <1>1 DEF Confirm, OtaStep
<1>2. CASE UNCHANGED ota
  BY <1>2
<1> QED BY <1>1, <1>2 DEF Serve

LEMMA Uploads == Upload => OtaStep
BY DEF Upload, OtaStep

LEMMA OtaSteps == [Next]_vars => OtaStep \/ UNCHANGED ota
<1> SUFFICES ASSUME [Next]_vars PROVE OtaStep \/ UNCHANGED ota
  OBVIOUS
<1>1. CASE PowerCycle
  BY <1>1 DEF PowerCycle, Restart, Down, OtaStep
<1>2. ASSUME NEW read \in BOOLEAN, NEW sampled \in BOOLEAN, Boot(read, sampled)
      PROVE  UNCHANGED ota
  BY <1>2 DEF Boot
<1>3. CASE RadioAnswers \/ RadioFails
  BY <1>3 DEF RadioAnswers, RadioFails
<1>4. ASSUME NEW called \in BOOLEAN, Reconnect(called) PROVE UNCHANGED ota
  BY <1>4 DEF Reconnect
<1>5. CASE EventLoop
  BY <1>5 DEF EventLoop, Started, Ignored, Lost, GiveUp, GotIp, Restore, Down, OtaStep
<1>6. ASSUME NEW f \in W!Forms, Save(f) PROVE OtaStep \/ UNCHANGED ota
  BY <1>6 DEF Save, Down, OtaStep
<1>7. CASE PortalRestart \/ PressRestart \/ UpdateRestart
  BY <1>7 DEF PortalRestart, PressRestart, UpdateRestart, Restart, Down, OtaStep
<1>8. ASSUME NEW erased \in BOOLEAN, Press(erased) PROVE UNCHANGED ota
  BY <1>8 DEF Press
<1>9. ASSUME NEW r \in Requests, Receive(r) PROVE UNCHANGED ota
  BY <1>9 DEF Receive
<1>10. CASE Serve
  BY <1>10, Serves
<1>11. CASE Upload
  BY <1>11, Uploads
<1>12. ASSUME NEW read \in BOOLEAN, NEW sampled \in BOOLEAN, Tick(read, sampled)
       PROVE  UNCHANGED ota
  BY <1>12 DEF Tick
<1>13. CASE Watch \/ Turn \/ Charge \/ Clock
  BY <1>13 DEF Watch, Turn, Charge, Clock
<1>14. CASE UNCHANGED vars
  BY <1>14 DEF vars
<1> QED BY <1>1, <1>2, <1>3, <1>4, <1>5, <1>6, <1>7, <1>8, <1>9, <1>10, <1>11, <1>12,
            <1>13, <1>14 DEF Next

LEMMA OtaKept == OtaInv /\ [Next]_vars => OtaInv'
<1> SUFFICES ASSUME OtaInv, [Next]_vars PROVE OtaInv'
  OBVIOUS
<1>1. CASE OtaStep
  BY <1>1, RestartKeeps, UploadKeeps, ConfirmKeeps DEF OtaStep
<1>2. CASE UNCHANGED ota
  BY <1>2 DEF ota, OtaInv, O!TypeOK, RunningSound, UploadSound, BootSound,
     PushKeepsImage, O!PushKeepsImage
<1> QED BY <1>1, <1>2, OtaSteps

-----------------------------------------------------------------------------
(* The radio.  Until a disconnection is handled nothing else is posted,    *)
(* for its handler alone sets the timer that starts another attempt.       *)

\* A device that has not booted yet has nothing in hand and nothing on the glass.
OffQuiet ==
  mode = "off" =>
    /\ events = <<>> /\ link = "idle" /\ timer = 0
    /\ screen.agent = None /\ restore.pc = "idle" /\ http = NoPush
    /\ ~shown.set

Pending(e) == \E i \in DOMAIN events : events[i] = e

\* The last event of an attempt.
LastWord(e) == \A i \in DOMAIN events : events[i] = e =>
                 /\ i = Len(events)
                 /\ link = "idle" /\ timer = 0

\* The streak counts no more than what was refused since the last address, unless
\* that address is still to be handled.
RadioInv ==
  /\ AuthFailFallback \in Nat \ {0}
  /\ events \in Seq(W!WifiEvents)
  /\ timer \in Nat /\ backoff \in Nat
  /\ streak \in 0..(AuthFailFallback - 1)
  /\ refusals \in 0..AuthFailFallback
  /\ timer # 0 => link = "idle"
  /\ LastWord("REFUSED") /\ LastWord("DROPPED")
  /\ Pending("STA_START") => Len(events) = 1 /\ link = "idle" /\ timer = 0
  /\ Pending("REFUSED") => refusals > 0
  /\ ~Pending("GOT_IP") => refusals >= streak + IF Pending("REFUSED") THEN 1 ELSE 0


\* What the radio, the event loop, the timer and the portal may do to each other.
RadioStep ==
  \/ W!StartStation \/ W!StartPortal
  \/ W!Associate \/ W!Lease
  \/ \E e \in {"REFUSED", "DROPPED"} : W!Disconnect(e)
  \/ W!Started \/ W!Ignored \/ W!GotIp
  \/ \E e \in {"REFUSED", "DROPPED"}, started \in BOOLEAN : W!Retry(e, started)
  \/ \E e \in {"REFUSED", "DROPPED"}, erased \in BOOLEAN : W!GiveUp(e, erased)
  \/ \E called \in BOOLEAN : W!Reconnect(called)
  \/ W!Reset
  \/ UNCHANGED <<link, events, timer, backoff, streak, refusals>>

LEMMA AppendEvent ==
  ASSUME NEW e \in W!WifiEvents, events \in Seq(W!WifiEvents), events' = Append(events, e)
  PROVE  /\ events' \in Seq(W!WifiEvents)
         /\ Len(events') = Len(events) + 1
         /\ \A i \in DOMAIN events : events'[i] = events[i]
         /\ events'[Len(events')] = e
         /\ DOMAIN events' = DOMAIN events \cup {Len(events')}
OBVIOUS

LEMMA TakeEvent ==
  ASSUME events \in Seq(W!WifiEvents), events # <<>>, events' = Tail(events)
  PROVE  /\ events' \in Seq(W!WifiEvents)
         /\ Len(events') = Len(events) - 1
         /\ \A i \in DOMAIN events' : i + 1 \in DOMAIN events /\ events'[i] = events[i + 1]
         /\ \A i \in DOMAIN events : i = 1 \/ i - 1 \in DOMAIN events'
         /\ Head(events) = events[1] /\ 1 \in DOMAIN events
         /\ Head(events) \in W!WifiEvents
OBVIOUS

\* A step that leaves the queue alone.
LEMMA QueueKept ==
  ASSUME RadioInv, UNCHANGED <<link, events, timer, backoff, streak, refusals>>
  PROVE  RadioInv'
BY DEF RadioInv, LastWord, Pending

LEMMA RadioStarts ==
  ASSUME RadioInv, events = <<>>, link = "idle", timer = 0,
         W!StartStation \/ W!StartPortal
  PROVE  RadioInv'
<1>1. PICK e \in {"STA_START", "AP_START"} : events' = <<e>>
  BY DEF W!StartStation, W!StartPortal
<1>2. UNCHANGED <<link, timer, backoff, streak, refusals>>
  BY DEF W!StartStation, W!StartPortal, W!ramVars
<1>3. events' \in Seq(W!WifiEvents) /\ Len(events') = 1
      /\ DOMAIN events' = {1} /\ events'[1] = e
  BY <1>1 DEF W!WifiEvents
<1>4. ~Pending("GOT_IP") /\ ~Pending("REFUSED")
  BY DEF Pending
<1> QED BY <1>1, <1>2, <1>3, <1>4 DEF RadioInv, LastWord, Pending

LEMMA RadioPosts ==
  ASSUME RadioInv,
         W!Associate \/ W!Lease \/ \E e \in {"REFUSED", "DROPPED"} : W!Disconnect(e)
  PROVE  RadioInv'
<1> USE DEF W!Post, W!ramVars, W!WifiEvents
<1>1. CASE W!Associate
  BY <1>1, AppendEvent DEF W!Associate, RadioInv, LastWord, Pending
<1>2. CASE W!Lease
  BY <1>2, AppendEvent DEF W!Lease, RadioInv, LastWord, Pending
<1>3. ASSUME NEW e \in {"REFUSED", "DROPPED"}, W!Disconnect(e) PROVE RadioInv'
  BY <1>3, AppendEvent DEF W!Disconnect, RadioInv, LastWord, Pending
<1> QED BY <1>1, <1>2, <1>3

LEMMA LoopTakes ==
  ASSUME RadioInv,
         \/ W!Started \/ W!Ignored \/ W!GotIp
         \/ \E e \in {"REFUSED", "DROPPED"}, started \in BOOLEAN : W!Retry(e, started)
  PROVE  RadioInv'
<1> USE DEF W!Delivered, W!ramVars
<1>1. CASE W!Started
  BY <1>1, TakeEvent DEF W!Started, RadioInv, LastWord, Pending
<1>2. CASE W!Ignored
  BY <1>2, TakeEvent DEF W!Ignored, RadioInv, LastWord, Pending
<1>3. CASE W!GotIp
  BY <1>3, TakeEvent DEF W!GotIp, RadioInv, LastWord, Pending
<1>4. ASSUME NEW e \in {"REFUSED", "DROPPED"}, NEW started \in BOOLEAN, W!Retry(e, started)
      PROVE  RadioInv'
  BY <1>4, TakeEvent DEF W!Retry, W!GivesUp, W!NewStreak, W!Counts, W!Scheduled,
     W!NextBackoff, RadioInv, LastWord, Pending
<1> QED BY <1>1, <1>2, <1>3, <1>4

LEMMA RadioTries ==
  ASSUME RadioInv, \E called \in BOOLEAN : W!Reconnect(called)
  PROVE  RadioInv'
BY DEF W!Reconnect, RadioInv, LastWord, Pending

LEMMA RadioResets ==
  ASSUME RadioInv, W!Reset
  PROVE  RadioInv'
BY DEF W!Reset, RadioInv, LastWord, Pending

-----------------------------------------------------------------------------
(* Before the boot nothing happens but to the world.                       *)

LEMMA DownIsQuiet ==
  ASSUME NEW power \in BOOLEAN, W!Reset, Down(power)
  PROVE  OffQuiet' /\ RadioStep
BY DEF W!Reset, Down, V!Reset, V!Splash, V!NotRestoring, B!Reset, B!NeverShown, OffQuiet,
   RadioStep

LEMMA BootIsQuiet ==
  ASSUME NEW read \in BOOLEAN, NEW sampled \in BOOLEAN, Boot(read, sampled)
  PROVE  OffQuiet' /\ RadioStep
BY DEF Boot, W!StartStation, W!StartPortal, OffQuiet, RadioStep

LEMMA LoopIsQuiet ==
  ASSUME OffQuiet, EventLoop
  PROVE  OffQuiet' /\ RadioStep
<1> USE DEF W!Delivered
<1>1. CASE Started
  BY <1>1 DEF Started, W!Started, W!ramVars, OffQuiet, RadioStep
<1>2. CASE Ignored
  BY <1>2 DEF Ignored, W!Ignored, W!ramVars, OffQuiet, RadioStep
<1>3. ASSUME NEW e \in {"REFUSED", "DROPPED"}, NEW ok \in BOOLEAN, Lost(e, ok)
      PROVE  OffQuiet' /\ RadioStep
  BY <1>3 DEF Lost, W!Retry, OffQuiet, RadioStep
<1>4. ASSUME NEW e \in {"REFUSED", "DROPPED"}, NEW ok \in BOOLEAN, GiveUp(e, ok)
      PROVE  OffQuiet' /\ RadioStep
  <2>1. W!Reset /\ Down(FALSE)
    BY <1>4 DEF GiveUp, W!GiveUp
  <2> QED BY <2>1, DownIsQuiet
<1>5. CASE GotIp
  BY <1>5 DEF GotIp, W!GotIp, OffQuiet, RadioStep
<1>6. CASE Restore
  <2>1. restore.pc # "idle" /\ UNCHANGED wifi
    BY <1>6 DEF Restore, V!RestoreCount, V!RestoreCopy, V!RestoreWait, V!RestoreShow
  <2> QED BY <2>1 DEF OffQuiet, RadioStep, wifi
<1> QED BY <1>1, <1>2, <1>3, <1>4, <1>5, <1>6 DEF EventLoop

LEMMA PushIsQuiet ==
  ASSUME OffQuiet, Serve
  PROVE  OffQuiet' /\ RadioStep
<1>1. http.pc \in {"admit", "put", "show", "confirm"}
  BY DEF Serve, Admit, Store, Show, Confirm, At
<1>2. UNCHANGED wifi
  BY DEF Serve
<1> QED BY <1>1, <1>2 DEF OffQuiet, RadioStep, wifi, NoPush

LEMMA QuietSteps == OffQuiet /\ [Next]_vars => OffQuiet' /\ RadioStep
<1> SUFFICES ASSUME OffQuiet, [Next]_vars PROVE OffQuiet' /\ RadioStep
  OBVIOUS
<1>1. CASE PowerCycle \/ PortalRestart \/ PressRestart \/ UpdateRestart
  BY <1>1, DownIsQuiet DEF PowerCycle, PortalRestart, PressRestart, UpdateRestart, Restart
<1>2. CASE \E read, sampled \in BOOLEAN : Boot(read, sampled)
  BY <1>2, BootIsQuiet
<1>3. CASE RadioAnswers \/ RadioFails
  BY <1>3 DEF RadioAnswers, RadioFails, W!Associate, W!Lease, W!Disconnect, view, battery,
     push, OffQuiet, RadioStep
<1>4. ASSUME NEW called \in BOOLEAN, Reconnect(called) PROVE OffQuiet' /\ RadioStep
  BY <1>4 DEF Reconnect, W!Reconnect, OffQuiet, RadioStep
<1>5. CASE EventLoop
  BY <1>5, LoopIsQuiet
<1>6. ASSUME NEW f \in W!Forms, Save(f) PROVE OffQuiet' /\ RadioStep
  <2>1. CASE W!Save(f, TRUE) \/ W!Save(f, FALSE)
    BY <2>1 DEF W!Save, OffQuiet, RadioStep
  <2>2. CASE W!SaveNow(f) /\ Down(FALSE)
    BY <2>2, DownIsQuiet DEF W!SaveNow
  <2> QED BY <1>6, <2>1, <2>2 DEF Save
<1>8. ASSUME NEW erased \in BOOLEAN, Press(erased) PROVE OffQuiet' /\ RadioStep
  BY <1>8 DEF Press, V!Erase, battery, push, OffQuiet, RadioStep
<1>9. ASSUME NEW r \in Requests, Receive(r) PROVE OffQuiet' /\ RadioStep
  BY <1>9 DEF Receive, Online, wifi, view, battery, OffQuiet, RadioStep
<1>10. CASE Serve
  BY <1>10, PushIsQuiet
<1>11. CASE Upload
  BY <1>11 DEF Upload, wifi, view, battery, push, OffQuiet, RadioStep
<1>12. ASSUME NEW read \in BOOLEAN, NEW sampled \in BOOLEAN, Tick(read, sampled)
       PROVE  OffQuiet' /\ RadioStep
  BY <1>12 DEF Tick, V!Tick, V!TickCyd, V!TickAmoled, wifi, OffQuiet, RadioStep
<1>13. CASE Watch \/ Turn \/ Charge \/ Clock
  BY <1>13 DEF Watch, Turn, Charge, Clock, V!Clock, B!Change, wifi, view, battery, push,
     OffQuiet, RadioStep
<1>14. CASE UNCHANGED vars
  BY <1>14 DEF vars, wifi, view, battery, push, OffQuiet, RadioStep
<1> QED BY <1>1, <1>2, <1>3, <1>4, <1>5, <1>6, <1>8, <1>9, <1>10, <1>11, <1>12, <1>13,
            <1>14 DEF Next

-----------------------------------------------------------------------------
(* The invariant of the radio, and who erases a network.                   *)

NetInv == RadioInv /\ OffQuiet

LEMMA NetInit == Init => NetInv
<1> SUFFICES ASSUME Init PROVE NetInv
  OBVIOUS
<1> QED BY FirmwareAssumption DEF Init, W!Init, V!Init, V!Splash, V!NotRestoring, B!Init,
           B!NeverShown, NetInv, RadioInv, LastWord, Pending, OffQuiet

LEMMA NetKept == NetInv /\ [Next]_vars => NetInv'
<1> SUFFICES ASSUME NetInv, [Next]_vars PROVE NetInv'
  OBVIOUS
<1>1. OffQuiet' /\ RadioStep
  BY QuietSteps DEF NetInv
<1>2. RadioInv'
  <2>1. CASE W!StartStation \/ W!StartPortal
    BY <2>1, RadioStarts DEF NetInv, OffQuiet, W!StartStation, W!StartPortal
  <2>2. CASE \E e \in {"REFUSED", "DROPPED"}, erased \in BOOLEAN : W!GiveUp(e, erased)
    BY <2>2, RadioResets DEF NetInv, W!GiveUp
  <2> QED BY <1>1, <2>1, <2>2, RadioPosts, LoopTakes, RadioTries, RadioResets, QueueKept
          DEF NetInv, RadioStep
<1> QED BY <1>1, <1>2 DEF NetInv

\* The handler gives up only over the last of as many refusals.
LEMMA GivesUpLate ==
  ASSUME RadioInv, NEW e \in {"REFUSED", "DROPPED"}, NEW erased \in BOOLEAN,
         W!GiveUp(e, erased)
  PROVE  refusals = AuthFailFallback
<1>1. e = "REFUSED" /\ streak + 1 >= AuthFailFallback
  BY DEF W!GiveUp, W!GivesUp, W!Counts, W!NewStreak, RadioInv
<1>2. 1 \in DOMAIN events /\ events[1] = "REFUSED"
  BY <1>1 DEF W!GiveUp, RadioInv
<1>3. DOMAIN events = {1}
  <2>1. Len(events) = 1
    BY <1>2 DEF RadioInv, LastWord
  <2> QED BY <2>1 DEF RadioInv
<1>4. Pending("REFUSED") /\ ~Pending("GOT_IP")
  BY <1>2, <1>3 DEF Pending
<1> QED BY <1>1, <1>4 DEF RadioInv

LEMMA WipeStep ==
  NetInv /\ [Next]_vars =>
    (creds # "none" /\ creds' = "none" => button' \/ refusals = AuthFailFallback)
<1> SUFFICES ASSUME NetInv, [Next]_vars, creds # "none", creds' = "none"
             PROVE  button' \/ refusals = AuthFailFallback
  OBVIOUS
<1>1. ASSUME NEW e \in {"REFUSED", "DROPPED"}, NEW ok \in BOOLEAN, GiveUp(e, ok)
      PROVE  refusals = AuthFailFallback
  BY <1>1, GivesUpLate DEF GiveUp, NetInv
<1>2. ASSUME NEW erased \in BOOLEAN, Press(erased) PROVE button'
  BY <1>2 DEF Press
<1>3. ASSUME NEW f \in W!Forms, Save(f) PROVE FALSE
  BY <1>3 DEF Save, W!Save, W!SaveNow, W!Network
<1>4. CASE PowerCycle \/ PortalRestart \/ PressRestart \/ UpdateRestart
  BY <1>4 DEF PowerCycle, PortalRestart, PressRestart, UpdateRestart, Restart
<1>5. CASE \E read, sampled \in BOOLEAN : Boot(read, sampled)
  BY <1>5 DEF Boot, W!StartStation, W!StartPortal
<1>6. CASE RadioAnswers \/ RadioFails
  BY <1>6 DEF RadioAnswers, RadioFails, W!Associate, W!Lease, W!Disconnect
<1>7. CASE \E called \in BOOLEAN : Reconnect(called)
  BY <1>7 DEF Reconnect, W!Reconnect
<1>8. CASE Started \/ Ignored \/ GotIp \/ Restore
  BY <1>8 DEF Started, Ignored, GotIp, Restore, W!Started, W!Ignored, W!GotIp, wifi
<1>9. CASE \E e \in {"REFUSED", "DROPPED"}, ok \in BOOLEAN : Lost(e, ok)
  BY <1>9 DEF Lost, W!Retry
<1>10. CASE \/ Serve \/ Upload \/ Watch \/ Turn \/ Charge \/ Clock \/ UNCHANGED vars
            \/ \E r \in Requests : Receive(r)
            \/ \E read, sampled \in BOOLEAN : Tick(read, sampled)
  BY <1>10 DEF Serve, Upload, Watch, Turn, Charge, Clock, Receive, Tick, vars, wifi
<1> QED BY <1>1, <1>2, <1>3, <1>4, <1>5, <1>6, <1>7, <1>8, <1>9, <1>10 DEF Next, EventLoop

-----------------------------------------------------------------------------
(* The battery label.                                                      *)

\* What the label was painted for is what its reading looks like, unless both are
\* hidden; a pack in place has a percentage.
BatteryInv ==
  /\ {pack, reading} \subseteq B!Packs
  /\ label \in B!Labels
  /\ label.visible = (shown.set /\ shown.visible)
  /\ shown.set => /\ shown.visible = (valid /\ reading.present)
                  /\ shown.visible => /\ shown = B!Appearance(reading, valid)
                                      /\ label = B!LabelFor(reading, valid)

LEMMA LabelFits ==
  ASSUME NEW b \in B!Packs, NEW v \in BOOLEAN, label \in B!Labels
  PROVE  /\ B!LabelFor(b, v) \in B!Labels
         /\ B!LabelFor(b, v).visible = (v /\ b.present)
         /\ v /\ b.present => B!LabelFor(b, v) =
              [visible |-> TRUE, glyph |-> B!Glyph(b), tint |-> B!Tint(b),
               percent |-> b.percent]
         /\ B!Appearance(b, v).visible = (v /\ b.present)
         /\ B!Appearance(b, v).set
BY FirmwareAssumption DEF B!Packs, B!Status, B!LabelFor, B!Labels, B!Glyphs, B!Glyph,
   B!Tint, B!Appearance

\* What a pack in place looks like tells which label it calls for.
LEMMA AppearanceTells ==
  ASSUME NEW b \in B!Packs, NEW c \in B!Packs, NEW v \in BOOLEAN, NEW w \in BOOLEAN,
         v, b.present, w, c.present, B!Appearance(b, v) = B!Appearance(c, w)
  PROVE  B!LabelFor(b, v) = B!LabelFor(c, w)
<1>1. ASSUME NEW d \in B!Packs, d.present
      PROVE  d.percent \in 0..100
  BY <1>1, FirmwareAssumption DEF B!Packs, B!Status
<1>2. b.percent = c.percent
  <2>1. B!Appearance(b, v).percent = b.percent /\ B!Appearance(c, w).percent = c.percent
    BY <1>1 DEF B!Appearance, B!Clamped
  <2> QED BY <2>1
<1>3. b.charging = c.charging
  <2>1. /\ B!Appearance(b, v).charging = b.charging
        /\ B!Appearance(c, w).charging = c.charging
    BY DEF B!Appearance
  <2> QED BY <2>1
<1> QED BY <1>2, <1>3 DEF B!LabelFor, B!Glyph, B!Tint

LEMMA AppliedKeeps ==
  ASSUME BatteryInv, NEW ok \in BOOLEAN, valid \in BOOLEAN, B!Sampled(ok), B!Applied,
         UNCHANGED pack
  PROVE  BatteryInv'
<1>1. reading' \in B!Packs /\ valid' \in BOOLEAN
  BY DEF B!Sampled, BatteryInv
<1> DEFINE now == B!Appearance(reading', valid')
<1>2. CASE B!Unchanged(now)
  <2>1. UNCHANGED <<shown, label>>
    BY <1>2 DEF B!Applied
  <2>2. shown.set /\ now.visible = shown.visible /\ (now.visible => now = shown)
    BY <1>2 DEF B!Unchanged
  <2>3. shown.visible = (valid' /\ reading'.present)
    BY <2>2, <1>1, LabelFits DEF BatteryInv
  <2>4. ASSUME shown.visible PROVE label = B!LabelFor(reading', valid')
    <3>1. valid /\ reading.present /\ label = B!LabelFor(reading, valid)
          /\ shown = B!Appearance(reading, valid)
      BY <2>2, <2>4 DEF BatteryInv
    <3>2. B!Appearance(reading, valid) = B!Appearance(reading', valid')
      BY <2>2, <2>4, <3>1
    <3> QED BY <3>1, <3>2, <1>1, <2>3, <2>4, AppearanceTells DEF BatteryInv
  <2>5. ASSUME shown.visible PROVE (label = B!LabelFor(reading, valid))'
    BY <2>1, <2>3, <2>4, <2>5, <1>1 DEF B!LabelFor, B!Glyph, B!Tint
  <2> QED BY <1>1, <2>1, <2>2, <2>3, <2>5 DEF BatteryInv
<1>3. CASE ~B!Unchanged(now)
  <2>1. shown' = now /\ label' = B!LabelFor(reading', valid')
    BY <1>3 DEF B!Applied
  <2>2. (label = B!LabelFor(reading, valid))' \/ ~(valid' /\ reading'.present)
    BY <2>1, <1>1 DEF B!LabelFor, B!Glyph, B!Tint
  <2> QED BY <1>1, <2>1, <2>2, LabelFits DEF BatteryInv
<1> QED BY <1>2, <1>3

\* What the rest of the device may do to the battery.
BatteryStep ==
  \/ UNCHANGED battery
  \/ B!Reset
  \/ ~shown.set /\ \E ok \in BOOLEAN : B!Boot(ok)
  \/ \E ok \in BOOLEAN : B!Tick(ok)
  \/ B!Show
  \/ \E p \in B!Packs : B!Change(p)

LEMMA NothingRead ==
  /\ B!NoReading \in B!Packs
  /\ B!Hidden \in B!Labels /\ B!Hidden.visible = FALSE
  /\ B!NeverShown.set = FALSE
<1>1. B!NoReading \in B!Packs
  BY DEF B!NoReading, B!Packs, B!Status
<1>2. B!Hidden \in B!Labels /\ B!Hidden.visible = FALSE
  BY DEF B!Hidden, B!Labels, B!Glyphs
<1>3. B!NeverShown.set = FALSE
  BY DEF B!NeverShown
<1> QED BY <1>1, <1>2, <1>3

LEMMA BatteryStepKeeps ==
  ASSUME BatteryInv, valid \in BOOLEAN, BatteryStep
  PROVE  BatteryInv' /\ valid' \in BOOLEAN
<1>1. CASE UNCHANGED battery
  BY <1>1 DEF battery, BatteryInv, B!LabelFor, B!Appearance, B!Glyph, B!Tint, B!Clamped
<1>2. CASE B!Reset
  BY <1>2, NothingRead DEF B!Reset, BatteryInv
<1>3. ASSUME ~shown.set, NEW ok \in BOOLEAN, B!Boot(ok)
      PROVE  BatteryInv' /\ valid' \in BOOLEAN
  BY <1>3 DEF B!Boot, B!Sampled, BatteryInv
<1>4. ASSUME NEW ok \in BOOLEAN, B!Tick(ok) PROVE BatteryInv' /\ valid' \in BOOLEAN
  <2>1. BatteryInv'
    BY <1>4, AppliedKeeps DEF B!Tick
  <2> QED BY <1>4, <2>1 DEF B!Tick, B!Sampled
<1>5. CASE B!Show
  <2>1. BatteryInv'
    BY <1>5, AppliedKeeps DEF B!Show
  <2> QED BY <1>5, <2>1 DEF B!Show, B!Sampled
<1>6. ASSUME NEW p \in B!Packs, B!Change(p) PROVE BatteryInv' /\ valid' \in BOOLEAN
  BY <1>6 DEF B!Change, BatteryInv, B!LabelFor, B!Appearance, B!Glyph, B!Tint, B!Clamped
<1> QED BY <1>1, <1>2, <1>3, <1>4, <1>5, <1>6 DEF BatteryStep

LEMMA BatterySteps == OffQuiet /\ [Next]_vars => BatteryStep
<1> SUFFICES ASSUME OffQuiet, [Next]_vars PROVE BatteryStep
  OBVIOUS
<1>1. CASE PowerCycle \/ PortalRestart \/ PressRestart \/ UpdateRestart
  BY <1>1 DEF PowerCycle, PortalRestart, PressRestart, UpdateRestart, Restart, Down,
     BatteryStep
<1>2. ASSUME NEW read \in BOOLEAN, NEW sampled \in BOOLEAN, Boot(read, sampled)
      PROVE  BatteryStep
  BY <1>2 DEF Boot, OffQuiet, BatteryStep
<1>3. CASE RadioAnswers \/ RadioFails \/ Upload \/ Watch \/ Turn \/ Clock
  BY <1>3 DEF RadioAnswers, RadioFails, Upload, Watch, Turn, Clock, BatteryStep
<1>4. ASSUME NEW called \in BOOLEAN, Reconnect(called) PROVE BatteryStep
  BY <1>4 DEF Reconnect, BatteryStep
<1>5. CASE EventLoop
  BY <1>5 DEF EventLoop, Started, Ignored, Lost, GiveUp, GotIp, Restore, BatteryShown,
     Down, BatteryStep
<1>6. ASSUME NEW f \in W!Forms, Save(f) PROVE BatteryStep
  BY <1>6 DEF Save, Down, BatteryStep
<1>8. ASSUME NEW erased \in BOOLEAN, Press(erased) PROVE BatteryStep
  BY <1>8 DEF Press, BatteryStep
<1>9. ASSUME NEW r \in Requests, Receive(r) PROVE BatteryStep
  BY <1>9 DEF Receive, BatteryStep
<1>10. CASE Serve
  BY <1>10 DEF Serve, Show, BatteryShown, BatteryStep
<1>11. CASE Charge
  BY <1>11 DEF Charge, BatteryStep
<1>12. ASSUME NEW read \in BOOLEAN, NEW sampled \in BOOLEAN, Tick(read, sampled)
       PROVE  BatteryStep
  BY <1>12 DEF Tick, BatteryStep
<1>14. CASE UNCHANGED vars
  BY <1>14 DEF vars, BatteryStep
<1> QED BY <1>1, <1>2, <1>3, <1>4, <1>5, <1>6, <1>8, <1>9, <1>10, <1>11, <1>12, <1>14
        DEF Next

BattInv == BatteryInv /\ valid \in BOOLEAN /\ OffQuiet

LEMMA BattInit == Init => BattInv
<1> SUFFICES ASSUME Init PROVE BattInv
  OBVIOUS
<1>1. BatteryInv /\ valid \in BOOLEAN
  BY NothingRead DEF Init, B!Init, BatteryInv
<1> QED BY <1>1, NetInit DEF BattInv, NetInv

LEMMA BattKept == BattInv /\ [Next]_vars => BattInv'
BY QuietSteps, BatterySteps, BatteryStepKeeps DEF BattInv

-----------------------------------------------------------------------------
(* The theorems.                                                           *)

\* The invariant of the update holds for any studies, owners and messages.
THEOREM OtaInvariance == Spec => []OtaInv
<1>1. OtaInv /\ [Next]_vars => OtaInv'
  BY OtaKept
<1> QED BY OtaInit, <1>1, PTL DEF Spec

\* Whenever the power goes, what boots next is complete, and what it may fall
\* back to is too (ota_post_handler writes only the other partition, seals it
\* last, and is not let in again before the restart).
THEOREM AlwaysBootableHolds == Spec => []AlwaysBootable
<1>1. OtaInv => AlwaysBootable
  BY TwoPartitions DEF OtaInv, O!TypeOK, RunningSound, BootSound, AlwaysBootable,
     O!AlwaysBootable, O!Boots, O!Unproved
<1> QED BY OtaInvariance, <1>1, PTL

\* An image that answered a push is never taken back (maybe_mark_ota_valid).
THEOREM PushKeepsImageHolds == Spec => []PushKeepsImage
<1>1. OtaInv => PushKeepsImage
  BY DEF OtaInv
<1> QED BY OtaInvariance, <1>1, PTL

\* Only the button, or as many refusals since the last address as it takes, erases
\* a network, and no other disconnection counts (wifi_event_handler).  Associations
\* between the refusals do not matter: the streak starts anew with an address only.
THEOREM WipeNeedsRefusalsHolds == Spec => WipeNeedsRefusals
<1>1. NetInv /\ [Next]_vars => NetInv'
  BY NetKept
<1>2. NetInv /\ [Next]_vars =>
        [creds # "none" /\ creds' = "none" => button' \/ refusals = AuthFailFallback]_vars
  BY WipeStep
<1> QED BY NetInit, <1>1, <1>2, PTL DEF Spec, WipeNeedsRefusals

\* The battery label is what the last good reading calls for, though it is painted
\* only when something visible has changed (apply_battery_locked).
THEOREM BatteryCurrentHolds == Spec => []BatteryCurrent
<1>1. BattInv /\ [Next]_vars => BattInv'
  BY BattKept
<1>2. BattInv => BatteryCurrent
  BY LabelFits DEF BattInv, BatteryInv, BatteryCurrent, B!LabelCurrent
<1> QED BY BattInit, <1>1, <1>2, PTL DEF Spec
=============================================================================
