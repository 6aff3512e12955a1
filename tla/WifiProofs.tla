----------------------------- MODULE WifiProofs -----------------------------
(***************************************************************************)
(* Keys, link, carrier and card agree in the CF8385 station, for any       *)
(* access points and any length of the queue.                              *)
(***************************************************************************)
EXTENDS Wifi, TLAPS

Station ==
  [connected : BOOLEAN, initialized : BOOLEAN, wpa : BOOLEAN, wep : BOOLEAN,
   pairwise_cipher : BOOLEAN, group_cipher : BOOLEAN, pairwise_key : BOOLEAN,
   group_key : BOOLEAN, drop_unencrypted : BOOLEAN, countermeasures : BOOLEAN,
   ssid : BOOLEAN, bssid : AP \cup {None}, requested_bssid : AP \cup {None}]
Interface == [up : BOOLEAN, active : BOOLEAN, carrier : BOOLEAN, stopped : BOOLEAN]
Points == {"free", "poll", "send", "sending", "wake", "disconnect",
           "clear group", "clear pairwise", "disconnected", "connect"}
Holding == [pc : Points, then : {"return", "connect", "stop", "wpa off"},
            failed : BOOLEAN, frame : Frames]
Firmware == [assoc : AP \cup {None}, pair : Keys, group : Keys, lost : BOOLEAN]

Typed ==
  /\ st \in Station /\ net \in Interface /\ job \in Holding /\ fw \in Firmware
  /\ queue \in Seq(Frames) /\ Len(queue) <= QueueMax
  /\ work \in BOOLEAN /\ card \in {"none", "fresh", "running"}

\* From the call of bm_disconnect on the holder has left its network.
Leaving == {"disconnect", "clear group", "clear pairwise", "disconnected", "connect"}
Left == Leaving \ {"disconnect"}

\* What the station believes of its link while it believes there is one.
LinkInv ==
  /\ net.active = net.up
  /\ st.connected =>
       /\ st.initialized /\ st.ssid /\ st.bssid # None
       /\ st.wep => Security[st.bssid] # "open"
       /\ Security[st.bssid] = "wpa" => st.wpa
       /\ fw.assoc \in {None, st.bssid}
       /\ net.up \/ job.pc = "disconnect"

\* Keys in use are the firmware's.
KeyInv ==
  /\ card # "running" => fw.assoc = None
  /\ fw.assoc # None /\ st.pairwise_key => fw.pair = "new"
  /\ fw.assoc # None /\ st.group_key => fw.group = "new"
  /\ job.pc # "disconnect" /\ ~st.connected => ~st.pairwise_key /\ ~st.group_key

\* What the holder of the lock has seen to, step by step.
JobInv ==
  /\ job.pc \in Leaving \cup {"poll", "sending"} => st.initialized
  /\ job.pc \in {"poll", "send", "sending", "wake"} => net.up
  /\ job.pc = "send" /\ ~st.initialized => queue = <<>> /\ net.stopped
  /\ job.pc = "sending" => bw_data_allowed(job.frame)
  /\ job.pc = "connect" => job.then = "connect" /\ ~job.failed
  /\ job.then = "connect" => job.pc \in Leaving /\ net.up /\ st.ssid
  /\ job.pc \in Left => ~st.connected
  /\ net.carrier <=> st.connected /\ job.pc \notin Leaving

\* The slots emptied before the station connects to a WPA network.
ClearInv ==
  st.wpa /\ st.pairwise_cipher /\ st.group_cipher /\ ~job.failed =>
    /\ job.pc \in {"clear pairwise", "disconnected", "connect"} => fw.group = "none"
    /\ job.pc \in {"disconnected", "connect"} => fw.pair = "none"

IInv == Typed /\ LinkInv /\ KeyInv /\ JobInv /\ ClearInv /\ NoStaleKeys

----------------------------------------------------------------------------
\* The record updates the actions are made of.

LEMMA Revoked ==
  ASSUME NEW s \in Station
  PROVE  /\ bm_revoke(s) \in Station
         /\ ~bm_revoke(s).pairwise_key /\ ~bm_revoke(s).group_key
         /\ bm_revoke(s).connected = s.connected
         /\ bm_revoke(s).initialized = s.initialized
         /\ bm_revoke(s).ssid = s.ssid /\ bm_revoke(s).wpa = s.wpa
         /\ bm_revoke(s).pairwise_cipher = s.pairwise_cipher
         /\ bm_revoke(s).group_cipher = s.group_cipher
BY DEF Station, bm_revoke

LEMMA Parted ==
  ASSUME NEW s \in Station, NEW r,
         \/ r = [bm_revoke(s) EXCEPT !.connected = FALSE]
         \/ r = [bm_revoke(s) EXCEPT !.connected = FALSE, !.initialized = FALSE]
         \/ r = [bm_revoke(s) EXCEPT !.connected = FALSE, !.initialized = FALSE, !.wep = FALSE]
  PROVE  /\ r \in Station /\ ~r.connected /\ ~r.pairwise_key /\ ~r.group_key
         /\ r.ssid = s.ssid
<1>1. CASE r = [bm_revoke(s) EXCEPT !.connected = FALSE]
  BY <1>1 DEF Station, bm_revoke
<1>2. CASE r = [bm_revoke(s) EXCEPT !.connected = FALSE, !.initialized = FALSE]
  BY <1>2 DEF Station, bm_revoke
<1>3. CASE r = [bm_revoke(s) EXCEPT !.connected = FALSE, !.initialized = FALSE, !.wep = FALSE]
  BY <1>3 DEF Station, bm_revoke
<1> QED
  BY <1>1, <1>2, <1>3

LEMMA KeepsCard ==
  ASSUME NEW s \in Station
  PROVE  [bm_revoke(s) EXCEPT !.connected = FALSE].initialized = s.initialized
BY DEF Station, bm_revoke

LEMMA NoFrames == <<>> \in Seq(Frames) /\ Len(<<>>) <= QueueMax
BY WifiAssumption

LEMMA Went ==
  ASSUME job \in Holding, NEW point \in Points, Goto(point)
  PROVE  /\ job' \in Holding /\ job'.pc = point
         /\ job'.then = job.then /\ job'.failed = job.failed /\ job'.frame = job.frame
BY DEF Holding, Goto

LEMMA Released ==
  ASSUME Release
  PROVE  job' \in Holding /\ job'.pc = "free" /\ job'.then = "return"
BY DEF Holding, Release, NoJob, Points, Frames

LEMMA Hired ==
  ASSUME NEW then \in {"return", "connect", "stop", "wpa off"},
         job' = [NoJob EXCEPT !.pc = "disconnect", !.then = then]
  PROVE  job' \in Holding /\ job'.pc = "disconnect" /\ job'.then = then
BY DEF Holding, NoJob, Points, Frames

LEMMA ResetTyped == Reset \in Firmware /\ Reset.assoc = None
BY DEF Reset, Firmware, Keys

LEMMA Commanded ==
  ASSUME NEW effect, NEW out \in bm_command(effect)
  PROVE  /\ out[2] \in BOOLEAN
         /\ \/ out[1] = fw /\ ~out[2]
            \/ out[1] = effect /\ card = "running"
<1>1. CASE out = <<fw, FALSE>>
  BY <1>1
<1>2. CASE card = "running" /\ out = <<effect, TRUE>>
  BY <1>2
<1>3. CASE card = "running" /\ out = <<effect, FALSE>>
  BY <1>3
<1> QED
  BY <1>1, <1>2, <1>3 DEF bm_command

\* bm_key leaves the slot in use only if the firmware took a new key for it.
LEMMA KeyCommanded ==
  ASSUME NEW pairwise \in BOOLEAN, NEW key \in {"new", "none"},
         NEW out \in bm_key(pairwise, key)
  PROVE  /\ out[3] \in BOOLEAN
         /\ \E on \in BOOLEAN :
              /\ out[2] = [st EXCEPT ![KeyOf(pairwise)] = on]
              /\ on => out[3] /\ key = "new"
         /\ \/ out[1] = fw /\ (out[3] => key = "none" /\ ~CipherOf(pairwise))
            \/ out[1] = [fw EXCEPT ![SlotOf(pairwise)] = key] /\ card = "running"
<1>1. CASE key = "none" /\ ~CipherOf(pairwise)
  <2>1. out = <<fw, [st EXCEPT ![KeyOf(pairwise)] = FALSE], TRUE>>
    BY <1>1 DEF bm_key
  <2> QED
    BY <1>1, <2>1
<1>2. CASE ~(key = "none" /\ ~CipherOf(pairwise))
  <2>1. PICK res \in bm_command([fw EXCEPT ![SlotOf(pairwise)] = key]) :
          out = <<res[1], [st EXCEPT ![KeyOf(pairwise)] = res[2] /\ key = "new"], res[2]>>
    BY <1>2 DEF bm_key
  <2>2. /\ res[2] \in BOOLEAN
        /\ \/ res[1] = fw /\ ~res[2]
           \/ res[1] = [fw EXCEPT ![SlotOf(pairwise)] = key] /\ card = "running"
    BY <2>1, Commanded
  <2>3. out[1] = res[1] /\ out[3] = res[2]
    BY <2>1
  <2>4. CASE res[2] /\ key = "new"
    <3>1. out[2] = [st EXCEPT ![KeyOf(pairwise)] = TRUE]
      BY <2>1, <2>4
    <3> QED
      BY <1>2, <2>2, <2>3, <2>4, <3>1
  <2>5. CASE ~(res[2] /\ key = "new")
    <3>1. out[2] = [st EXCEPT ![KeyOf(pairwise)] = FALSE]
      BY <2>1, <2>5
    <3> QED
      BY <1>2, <2>2, <2>3, <2>5, <3>1
  <2> QED
    BY <2>4, <2>5
<1> QED
  BY <1>1, <1>2

\* A step after which the station has no link and uses no key.
LEMMA Unlinked ==
  ASSUME Typed', JobInv', ClearInv', net'.active = net'.up, ~st'.connected,
         ~st'.pairwise_key, ~st'.group_key, card' # "running" => fw'.assoc = None
  PROVE  IInv'
BY DEF IInv, LinkInv, KeyInv, NoStaleKeys

----------------------------------------------------------------------------
\* Steps of the rest of the world.
LEMMA EnvironmentKeeps == IInv /\ Environment => IInv'
<1> SUFFICES ASSUME IInv, Environment PROVE IInv'
  OBVIOUS
<1> USE WifiAssumption DEF IInv
<1>1. UNCHANGED <<st, job>> /\ UNCHANGED <<net.up, net.active, net.carrier>>
  BY DEF Environment, wifi_xmit, wifi_tick, Remove, Insert, Deauthenticated, Typed, Interface
<1>2. Typed'
  <2>1. CASE wifi_xmit
    <3>1. PICK frame \in Frames :
            queue' = IF Len(queue) >= QueueMax THEN queue ELSE Append(queue, frame)
      BY <2>1 DEF wifi_xmit
    <3>2. queue' \in Seq(Frames) /\ Len(queue') <= QueueMax
      BY <3>1 DEF Typed
    <3>3. net' \in Interface /\ work' \in BOOLEAN
      BY <2>1 DEF wifi_xmit, Typed, Interface
    <3> QED
      BY <2>1, <3>2, <3>3 DEF wifi_xmit, Typed
  <2>2. CASE wifi_tick
    BY <2>2 DEF wifi_tick, Typed
  <2>3. CASE Remove
    BY <2>3, ResetTyped DEF Remove, Typed
  <2>4. CASE Insert
    BY <2>4 DEF Insert, Typed
  <2>5. CASE Deauthenticated
    <3>1. fw' \in Firmware
      BY <2>5 DEF Deauthenticated, Typed, Firmware
    <3> QED
      BY <2>5, <3>1 DEF Deauthenticated, Typed
  <2> QED
    BY <2>1, <2>2, <2>3, <2>4, <2>5 DEF Environment
<1>3. /\ fw' = fw \/ fw'.assoc = None
      /\ card' # "running" => fw'.assoc = None
  BY ResetTyped
  DEF Environment, wifi_xmit, wifi_tick, Remove, Insert, Deauthenticated, Typed, Firmware, KeyInv
<1>4. LinkInv' /\ KeyInv'
  BY <1>1, <1>3 DEF LinkInv, KeyInv
<1>5. JobInv'
  <2>1. net.stopped => queue' = queue /\ net' = net
    BY DEF Environment, wifi_xmit, wifi_tick, Remove, Insert, Deauthenticated
  <2>2. bw_data_allowed(job.frame)' = bw_data_allowed(job.frame)
    BY <1>1 DEF bw_data_allowed
  <2> QED
    BY <1>1, <2>1, <2>2 DEF JobInv
<1>6. \/ fw' = fw
      \/ fw' = Reset
      \/ fw'.pair = fw.pair /\ fw'.group = fw.group
  BY DEF Environment, wifi_xmit, wifi_tick, Remove, Insert, Deauthenticated, Typed, Firmware
<1>7. ClearInv' /\ NoStaleKeys'
  <2>1. CASE fw'.pair = fw.pair /\ fw'.group = fw.group
    BY <1>1, <2>1 DEF ClearInv, NoStaleKeys
  <2>2. CASE fw'.pair = "none" /\ fw'.group = "none"
    BY <1>1, <2>2 DEF ClearInv, NoStaleKeys
  <2> QED
    BY <1>6, <2>1, <2>2 DEF Reset
<1> QED
  BY <1>2, <1>4, <1>5, <1>7

\* The worker looks for its card, and finds what became of the link.
LEMMA WorkerKeeps == IInv /\ wifi_worker => IInv'
<1> SUFFICES ASSUME IInv, wifi_worker PROVE IInv'
  OBVIOUS
<1> USE DEF IInv
<1>1. CASE UNCHANGED <<st, net, queue, job>>
  <2>1. UNCHANGED <<card, fw>> /\ work' = FALSE /\ job.pc = "free"
    BY DEF wifi_worker, Free
  <2>2. Typed'
    BY <1>1, <2>1 DEF Typed
  <2>3. JobInv'
    BY <1>1, <2>1 DEF JobInv
  <2> QED
    BY <1>1, <2>1, <2>2, <2>3 DEF LinkInv, KeyInv, ClearInv, NoStaleKeys
<1>2. CASE /\ st.initialized /\ net.active /\ card = "none"
           /\ st' = [bm_revoke(st) EXCEPT !.connected = FALSE, !.initialized = FALSE,
                                          !.wep = FALSE]
           /\ net' = [net EXCEPT !.carrier = FALSE, !.stopped = TRUE]
           /\ queue' = <<>>
           /\ UNCHANGED job
  <2>1. st' \in Station /\ ~st'.connected /\ ~st'.pairwise_key /\ ~st'.group_key
        /\ st'.ssid = st.ssid
    BY <1>2, Parted DEF Typed
  <2>2. net' \in Interface /\ ~net'.carrier /\ net'.up = net.up /\ net'.active = net.active
    BY <1>2 DEF Interface, Typed
  <2>3. job' = job /\ job.pc = "free" /\ UNCHANGED <<card, fw>> /\ work' = FALSE
    BY <1>2 DEF wifi_worker, Free
  <2>4. Typed'
    BY <1>2, <2>1, <2>2, <2>3, NoFrames DEF Typed
  <2>5. JobInv' /\ ClearInv'
    BY <2>1, <2>2, <2>3 DEF JobInv, ClearInv, Leaving, Left
  <2> QED
    BY <2>1, <2>2, <2>3, <2>4, <2>5, Unlinked DEF LinkInv, KeyInv
<1>3. CASE st.initialized /\ net.active /\ Goto("poll") /\ UNCHANGED <<st, net, queue>>
  <2>1. /\ job' \in Holding /\ job'.pc = "poll" /\ job'.then = job.then /\ job.pc = "free"
        /\ UNCHANGED <<card, fw>> /\ work' = FALSE
    BY <1>3, Went DEF wifi_worker, Free, Points, Typed
  <2>2. Typed'
    BY <1>3, <2>1 DEF Typed
  <2> QED
    BY <1>3, <2>1, <2>2 DEF LinkInv, KeyInv, JobInv, ClearInv, NoStaleKeys, Leaving, Left
<1> QED
  BY <1>1, <1>2, <1>3 DEF wifi_worker

LEMMA PollKeeps == IInv /\ (PollGone \/ PollLost \/ PollQuiet) => IInv'
<1> SUFFICES ASSUME IInv, PollGone \/ PollLost \/ PollQuiet PROVE IInv'
  OBVIOUS
<1> USE DEF IInv
<1>1. /\ job.pc = "poll" /\ Goto("send") /\ UNCHANGED <<work, card>>
      /\ job' \in Holding /\ job'.pc = "send" /\ job'.then = job.then
  BY Went DEF PollGone, PollLost, PollQuiet, Points, Typed
<1>2. net.up /\ st.initialized /\ (net.carrier <=> st.connected) /\ job.then # "connect"
  BY <1>1 DEF JobInv, Leaving
<1>3. ASSUME st' \in Station, ~st'.connected, ~st'.pairwise_key, ~st'.group_key,
             fw' \in Firmware, fw'.assoc = fw.assoc,
             net' \in Interface, net'.up = net.up, net'.active = net.active, ~net'.carrier,
             \/ st'.initialized /\ queue' = queue
             \/ queue' = <<>> /\ net'.stopped
      PROVE  IInv'
  <2>1. Typed'
    BY <1>1, <1>3, NoFrames DEF Typed
  <2>2. JobInv' /\ ClearInv'
    BY <1>1, <1>2, <1>3 DEF JobInv, ClearInv, Leaving, Left
  <2> QED
    BY <1>1, <1>3, <2>1, <2>2, Unlinked DEF LinkInv, KeyInv
<1>4. CASE PollGone
  <2>1. /\ st' \in Station /\ ~st'.connected /\ ~st'.pairwise_key /\ ~st'.group_key
    BY <1>4, Parted DEF PollGone, Typed
  <2>2. /\ net' \in Interface /\ net'.up = net.up /\ net'.active = net.active
        /\ ~net'.carrier /\ net'.stopped
    BY <1>2, <1>4 DEF PollGone, Interface, Typed
  <2>3. queue' = <<>> /\ fw' = fw
    BY <1>4 DEF PollGone
  <2> QED
    BY <1>3, <2>1, <2>2, <2>3 DEF Typed
<1>5. CASE PollLost
  <2>1. fw' \in Firmware /\ fw'.assoc = fw.assoc /\ fw'.pair = fw.pair /\ fw'.group = fw.group
    BY <1>5 DEF PollLost, Firmware, Typed
  <2>2. CASE st.connected
    <3>1. /\ st' \in Station /\ ~st'.connected /\ ~st'.pairwise_key /\ ~st'.group_key
          /\ st'.initialized = st.initialized
      BY <1>5, <2>2, Parted, KeepsCard DEF PollLost, Typed
    <3>2. /\ net' \in Interface /\ net'.up = net.up /\ net'.active = net.active
          /\ ~net'.carrier /\ queue' = queue
      BY <1>5, <2>2 DEF PollLost, Interface, Typed
    <3> QED
      BY <1>2, <1>3, <2>1, <3>1, <3>2
  <2>3. CASE ~st.connected
    <3>1. UNCHANGED <<st, net, queue>>
      BY <1>5, <2>3 DEF PollLost
    <3> QED
      BY <1>2, <1>3, <2>1, <2>3, <3>1, <1>1 DEF Typed, KeyInv
  <2> QED
    BY <2>2, <2>3
<1>6. CASE PollQuiet
  <2>1. UNCHANGED <<st, net, queue, fw>>
    BY <1>6 DEF PollQuiet
  <2>2. Typed'
    BY <1>1, <2>1 DEF Typed
  <2> QED
    BY <1>1, <1>2, <2>1, <2>2
    DEF LinkInv, KeyInv, JobInv, ClearInv, NoStaleKeys, Leaving, Left
<1> QED
  BY <1>4, <1>5, <1>6

\* The worker sends what the checks of bw_data_allowed let pass.
LEMMA SendKeeps == IInv /\ (Dequeue \/ bm_send \/ DequeueNone \/ WorkerDone) => IInv'
<1> SUFFICES ASSUME IInv, Dequeue \/ bm_send \/ DequeueNone \/ WorkerDone PROVE IInv'
  OBVIOUS
<1> USE DEF IInv
<1>1. /\ UNCHANGED <<st, work, card, fw>> /\ job.pc \in {"send", "sending", "wake"}
      /\ net.up /\ (net.carrier <=> st.connected) /\ job.then # "connect"
  BY DEF Dequeue, bm_send, DequeueNone, WorkerDone, JobInv, Leaving
<1>2. ASSUME Typed', net'.up = net.up, net'.active = net.active, net'.carrier = net.carrier,
             job'.pc \in {"free", "send", "sending", "wake"}, job'.then # "connect", JobInv'
      PROVE  IInv'
  BY <1>1, <1>2 DEF LinkInv, KeyInv, ClearInv, NoStaleKeys
<1>3. CASE Dequeue
  <2>1. Head(queue) \in Frames /\ queue' \in Seq(Frames) /\ Len(queue') <= QueueMax
    <3>1. queue \in Seq(Frames) /\ queue # <<>> /\ queue' = Tail(queue)
      BY <1>3 DEF Dequeue, Typed
    <3>2. Len(Tail(queue)) = Len(queue) - 1 /\ Len(queue) \in Nat
      BY <3>1
    <3>3. Len(queue) <= QueueMax
      BY DEF Typed
    <3> QED
      BY <3>1, <3>2, <3>3, WifiAssumption
  <2>2. CASE bw_data_allowed(Head(queue))
    <3>1. /\ job' \in Holding /\ job'.pc = "sending" /\ job'.frame = Head(queue)
          /\ job'.then = job.then /\ UNCHANGED net
      BY <1>3, <2>1, <2>2 DEF Dequeue, Typed, Holding, Points
    <3>2. Typed'
      BY <1>1, <2>1, <3>1 DEF Typed
    <3>3. bw_data_allowed(job.frame)' /\ st.initialized
      BY <1>1, <1>3, <2>2, <3>1 DEF bw_data_allowed, JobInv, Dequeue
    <3>4. JobInv'
      BY <1>1, <3>1, <3>3 DEF JobInv, Leaving, Left
    <3> QED
      BY <1>1, <1>2, <3>1, <3>2, <3>4
  <2>3. CASE ~bw_data_allowed(Head(queue))
    <3>1. UNCHANGED <<job, net>> /\ job.pc = "send" /\ queue # <<>>
      BY <1>3, <2>3 DEF Dequeue
    <3>2. Typed'
      BY <1>1, <2>1, <3>1 DEF Typed
    <3>3. JobInv'
      BY <1>1, <3>1 DEF JobInv, Leaving, Left
    <3> QED
      BY <1>1, <1>2, <3>1, <3>2, <3>3
  <2> QED
    BY <2>2, <2>3
<1>4. CASE bm_send
  <2>1. /\ job' \in Holding /\ job'.pc = "send" /\ job'.then = job.then
        /\ UNCHANGED <<net, queue>> /\ job.pc = "sending"
    BY <1>4, Went DEF bm_send, Points, Typed
  <2>2. Typed'
    BY <1>1, <2>1 DEF Typed
  <2>3. JobInv'
    BY <1>1, <2>1 DEF JobInv, Leaving, Left
  <2> QED
    BY <1>1, <1>2, <2>1, <2>2, <2>3
<1>5. CASE WorkerDone
  <2>1. /\ net' \in Interface /\ net'.up = net.up /\ net'.active = net.active
        /\ net'.carrier = net.carrier /\ UNCHANGED queue
    BY <1>5 DEF WorkerDone, Interface, Typed
  <2>2. job' \in Holding /\ job'.pc = "free" /\ job'.then = "return"
    BY <1>5, Released DEF WorkerDone
  <2>3. Typed'
    BY <1>1, <2>1, <2>2 DEF Typed
  <2>4. JobInv'
    BY <1>1, <2>1, <2>2 DEF JobInv, Leaving, Left
  <2> QED
    BY <1>2, <2>1, <2>2, <2>3, <2>4
<1>6. CASE DequeueNone
  <2>1. /\ job' \in Holding /\ job'.pc = "wake" /\ job'.then = job.then
        /\ UNCHANGED <<net, queue>>
    BY <1>6, Went DEF DequeueNone, Points, Typed
  <2>2. Typed'
    BY <1>1, <2>1 DEF Typed
  <2>3. JobInv'
    BY <1>1, <2>1 DEF JobInv, Leaving, Left
  <2> QED
    BY <1>1, <1>2, <2>1, <2>2, <2>3
<1> QED
  BY <1>3, <1>4, <1>5, <1>6

----------------------------------------------------------------------------
\* bm_disconnect and bm_connect, command by command.

LEMMA DisconnectKeeps == IInv /\ bm_disconnect => IInv'
<1> SUFFICES ASSUME IInv, bm_disconnect PROVE IInv'
  OBVIOUS
<1> USE DEF IInv
<1>1. /\ job.pc = "disconnect" /\ UNCHANGED <<net, queue, work, card>>
      /\ st.initialized /\ ~net.carrier
      /\ st' = [bm_revoke(st) EXCEPT !.connected = FALSE, !.bssid = None]
  BY DEF bm_disconnect, JobInv, Leaving
<1>2. /\ st' \in Station /\ ~st'.connected /\ ~st'.pairwise_key /\ ~st'.group_key
      /\ st'.initialized = st.initialized /\ st'.ssid = st.ssid /\ st'.wpa = st.wpa
  BY <1>1 DEF Typed, Station, bm_revoke
<1>3. PICK out :
        /\ out \in IF st.bssid = None THEN {<<fw, TRUE>>}
                   ELSE bm_command([fw EXCEPT !.assoc = None])
        /\ fw' = out[1]
        /\ job' = [job EXCEPT !.pc = IF Clears(st) THEN "clear group" ELSE "disconnected",
                              !.failed = ~out[2]]
  BY DEF bm_disconnect
<1>4. fw' = fw \/ fw' = [fw EXCEPT !.assoc = None]
  <2>1. CASE st.bssid = None
    BY <1>3, <2>1
  <2>2. CASE st.bssid # None
    <3>1. out \in bm_command([fw EXCEPT !.assoc = None])
      BY <1>3, <2>2
    <3> QED
      BY <1>3, <3>1, Commanded
  <2> QED
    BY <2>1, <2>2
<1>5. fw' \in Firmware /\ (fw'.assoc = fw.assoc \/ fw'.assoc = None)
  BY <1>4 DEF Typed, Firmware
<1>6. /\ job' \in Holding /\ job'.then = job.then
      /\ job'.pc = IF Clears(st) THEN "clear group" ELSE "disconnected"
  <2>1. (~out[2]) \in BOOLEAN
    OBVIOUS
  <2> QED
    BY <1>3, <2>1 DEF Typed, Holding, Points
<1>7. Typed'
  BY <1>1, <1>2, <1>5, <1>6 DEF Typed
<1>8. JobInv'
  BY <1>1, <1>2, <1>6 DEF JobInv, Leaving, Left
<1>9. ClearInv'
  BY <1>2, <1>6 DEF ClearInv, Clears
<1> QED
  BY <1>1, <1>2, <1>5, <1>7, <1>8, <1>9, Unlinked DEF LinkInv, KeyInv

LEMMA ClearKeeps == IInv /\ (ClearGroup \/ ClearPairwise) => IInv'
<1> SUFFICES ASSUME IInv, ClearGroup \/ ClearPairwise PROVE IInv'
  OBVIOUS
<1> USE DEF IInv
<1>1. ASSUME NEW pairwise \in BOOLEAN, NEW from \in {"clear group", "clear pairwise"},
             NEW to \in {"clear pairwise", "disconnected"},
             pairwise <=> from = "clear pairwise", pairwise <=> to = "disconnected",
             ClearKey(pairwise, from, to)
      PROVE  IInv'
  <2>1. /\ job.pc = from /\ UNCHANGED <<net, queue, work, card>>
        /\ st.initialized /\ ~net.carrier /\ ~st.connected
        /\ ~st.pairwise_key /\ ~st.group_key
    BY <1>1 DEF ClearKey, JobInv, KeyInv, Leaving, Left
  <2>2. PICK out \in bm_key(pairwise, "none") :
          /\ fw' = out[1] /\ st' = out[2]
          /\ job' = [job EXCEPT !.pc = to, !.failed = @ \/ ~out[3]]
    BY <1>1 DEF ClearKey
  <2>3. /\ out[3] \in BOOLEAN
        /\ st' = [st EXCEPT ![KeyOf(pairwise)] = FALSE]
        /\ \/ fw' = fw /\ (out[3] => ~CipherOf(pairwise))
           \/ fw' = [fw EXCEPT ![SlotOf(pairwise)] = "none"]
    <3>1. PICK on \in BOOLEAN :
            st' = [st EXCEPT ![KeyOf(pairwise)] = on] /\ (on => "none" = "new")
      BY <1>1, <2>2, KeyCommanded
    <3>2. on = FALSE
      BY <3>1
    <3> QED
      BY <1>1, <2>2, <3>1, <3>2, KeyCommanded
  <2>4. /\ st' \in Station /\ ~st'.connected /\ ~st'.pairwise_key /\ ~st'.group_key
        /\ st'.initialized = st.initialized /\ st'.ssid = st.ssid /\ st'.wpa = st.wpa
        /\ st'.pairwise_cipher = st.pairwise_cipher /\ st'.group_cipher = st.group_cipher
    <3>1. st' = [st EXCEPT !.pairwise_key = FALSE] \/ st' = [st EXCEPT !.group_key = FALSE]
      BY <2>3 DEF KeyOf
    <3> QED
      BY <2>1, <3>1 DEF Typed, Station
  <2>5. /\ fw' \in Firmware /\ fw'.assoc = fw.assoc
        /\ fw'.pair \in {fw.pair, "none"} /\ fw'.group \in {fw.group, "none"}
        /\ out[3] /\ pairwise /\ st.pairwise_cipher => fw'.pair = "none"
        /\ out[3] /\ ~pairwise /\ st.group_cipher => fw'.group = "none"
    <3>1. CASE pairwise
      BY <2>3, <3>1 DEF SlotOf, CipherOf, Typed, Firmware, Keys
    <3>2. CASE ~pairwise
      BY <2>3, <3>2 DEF SlotOf, CipherOf, Typed, Firmware, Keys
    <3> QED
      BY <3>1, <3>2
  <2>6. /\ job' \in Holding /\ job'.pc = to /\ job'.then = job.then
        /\ ~job'.failed => ~job.failed /\ out[3]
    <3>1. (job.failed \/ ~out[3]) \in BOOLEAN
      OBVIOUS
    <3> QED
      BY <1>1, <2>2, <3>1 DEF Typed, Holding, Points
  <2>7. Typed'
    BY <2>1, <2>4, <2>5, <2>6 DEF Typed
  <2>8. JobInv'
    BY <1>1, <2>1, <2>4, <2>6 DEF JobInv, Leaving, Left
  <2>9. ClearInv'
    <3>1. CASE pairwise
      BY <1>1, <2>1, <2>4, <2>5, <2>6, <3>1 DEF ClearInv
    <3>2. CASE ~pairwise
      BY <1>1, <2>4, <2>5, <2>6, <3>2 DEF ClearInv
    <3> QED
      BY <3>1, <3>2
  <2> QED
    BY <2>1, <2>4, <2>5, <2>7, <2>8, <2>9, Unlinked DEF LinkInv, KeyInv
<1> QED
  BY <1>1 DEF ClearGroup, ClearPairwise

LEMMA DisconnectedKeeps == IInv /\ Disconnected => IInv'
<1> SUFFICES ASSUME IInv, Disconnected PROVE IInv'
  OBVIOUS
<1> USE DEF IInv
<1>1. /\ job.pc = "disconnected" /\ UNCHANGED <<net, card, fw>>
      /\ st.initialized /\ ~net.carrier /\ ~st.connected
      /\ ~st.pairwise_key /\ ~st.group_key
  BY DEF Disconnected, JobInv, KeyInv, Leaving, Left
<1>2. CASE job.then = "connect" /\ ~job.failed /\ ~st.countermeasures
  <2>1. /\ UNCHANGED <<st, queue, work>>
        /\ job' \in Holding /\ job'.pc = "connect"
        /\ job'.then = job.then /\ job'.failed = job.failed
    BY <1>2, Went DEF Disconnected, Points, Typed
  <2>2. Typed'
    BY <1>1, <2>1 DEF Typed
  <2>3. JobInv' /\ ClearInv'
    BY <1>1, <1>2, <2>1 DEF JobInv, ClearInv, Leaving, Left
  <2> QED
    BY <1>1, <2>1, <2>2, <2>3, Unlinked DEF LinkInv, KeyInv
<1>3. CASE ~(job.then = "connect" /\ ~job.failed /\ ~st.countermeasures)
  <2>1. Release /\ \/ st' = Stopped(st)
                   \/ st' = [st EXCEPT !.wpa = FALSE]
                   \/ st' = st
    BY <1>3 DEF Disconnected
  <2>2. job' \in Holding /\ job'.pc = "free" /\ job'.then = "return"
    BY <2>1, Released
  <2>3. st' \in Station /\ ~st'.connected /\ ~st'.pairwise_key /\ ~st'.group_key
    <3>1. CASE st' = Stopped(st)
      BY <3>1, ZenonT(40) DEF Typed, Station, Stopped, bm_revoke
    <3>2. CASE st' = [st EXCEPT !.wpa = FALSE]
      BY <1>1, <3>2 DEF Typed, Station
    <3> QED
      BY <1>1, <2>1, <3>1, <3>2 DEF Typed
  <2>4. queue' \in {queue, <<>>} /\ work' \in BOOLEAN
    BY <1>3 DEF Disconnected, Typed
  <2>5. Typed'
    BY <1>1, <2>2, <2>3, <2>4, NoFrames DEF Typed
  <2>6. JobInv' /\ ClearInv'
    BY <1>1, <2>2, <2>3 DEF JobInv, ClearInv, Leaving, Left
  <2> QED
    BY <1>1, <2>3, <2>5, <2>6, Unlinked DEF LinkInv, KeyInv
<1> QED
  BY <1>2, <1>3

LEMMA ConnectKeeps == IInv /\ bm_connect => IInv'
<1> SUFFICES ASSUME IInv, bm_connect PROVE IInv'
  OBVIOUS
<1> USE DEF IInv
<1>1. /\ job.pc = "connect" /\ UNCHANGED <<queue, work, card>>
      /\ st.initialized /\ st.ssid /\ net.up /\ ~job.failed
      /\ ~net.carrier /\ ~st.connected /\ ~st.pairwise_key /\ ~st.group_key
  BY DEF bm_connect, JobInv, KeyInv, Leaving, Left
<1>2. job' \in Holding /\ job'.pc = "free" /\ job'.then = "return"
  BY Released DEF bm_connect
<1>3. ClearInv'
  BY <1>2 DEF ClearInv
<1>4. ASSUME UNCHANGED <<st, net>>, fw' \in Firmware, card # "running" => fw'.assoc = None
      PROVE  IInv'
  <2>1. Typed'
    BY <1>1, <1>2, <1>4 DEF Typed
  <2>2. JobInv'
    BY <1>1, <1>2, <1>4 DEF JobInv, Leaving, Left
  <2> QED
    BY <1>1, <1>3, <1>4, <2>1, <2>2, Unlinked DEF LinkInv
<1>5. CASE UNCHANGED <<st, net, fw>>
  BY <1>4, <1>5 DEF Typed, KeyInv
<1>6. ASSUME NEW ap \in Acceptable, NEW out \in bm_command(Associated(ap)),
             fw' = out[1],
             st' = IF out[2] THEN [st EXCEPT !.connected = TRUE, !.bssid = ap] ELSE st,
             net' = [net EXCEPT !.carrier = @ \/ out[2]]
      PROVE  IInv'
  <2>1. /\ ap \in AP /\ ap # None
        /\ st.wpa => Security[ap] # "open" /\ st.pairwise_cipher /\ st.group_cipher
        /\ ~st.wpa => Security[ap] = IF st.wep THEN "wep" ELSE "open"
    BY <1>6, WifiAssumption DEF Acceptable
  <2>2. Associated(ap) \in Firmware /\ Associated(ap).assoc = ap
        /\ (fw.pair = "none" => Associated(ap).pair = "none")
        /\ (fw.group = "none" => Associated(ap).group = "none")
    BY <2>1 DEF Associated, Typed, Firmware, Keys
  <2>3. /\ out[2] \in BOOLEAN
        /\ \/ fw' = fw /\ ~out[2]
           \/ fw' = Associated(ap) /\ card = "running"
    BY <1>6, Commanded
  <2>4. CASE ~out[2]
    <3>1. (net.carrier \/ out[2]) = net.carrier
      BY <1>1, <2>3, <2>4 DEF Typed, Interface
    <3>2. st' = st /\ net' = net
      BY <1>6, <2>4, <3>1 DEF Typed, Interface
    <3> QED
      BY <1>4, <2>2, <2>3, <3>2 DEF Typed, KeyInv
  <2>5. CASE out[2]
    <3>1. fw' = Associated(ap) /\ card = "running"
      BY <2>3, <2>5
    <3>2. st' = [st EXCEPT !.connected = TRUE, !.bssid = ap]
      BY <1>6, <2>5
    <3>3. /\ st' \in Station /\ st'.connected /\ st'.bssid = ap
          /\ ~st'.pairwise_key /\ ~st'.group_key
          /\ st'.initialized /\ st'.ssid /\ st'.wpa = st.wpa /\ st'.wep = st.wep
      BY <1>1, <2>1, <3>2 DEF Typed, Station
    <3>4. (net.carrier \/ out[2]) = TRUE
      BY <2>5
    <3>5. net' \in Interface /\ net'.up = net.up /\ net'.active = net.active /\ net'.carrier
      BY <1>6, <3>4 DEF Typed, Interface
    <3>6. Typed'
      BY <1>1, <1>2, <2>2, <3>1, <3>3, <3>5 DEF Typed
    <3>7. LinkInv'
      BY <1>1, <2>1, <2>2, <3>1, <3>3, <3>5 DEF LinkInv
    <3>8. KeyInv' /\ JobInv'
      BY <1>1, <1>2, <3>1, <3>3, <3>5 DEF KeyInv, JobInv, Leaving, Left
    <3>9. NoStaleKeys'
      <4>1. st.wpa => fw.pair = "none" /\ fw.group = "none"
        BY <1>1, <2>1 DEF ClearInv
      <4> QED
        BY <2>1, <2>2, <3>1, <3>3, <4>1 DEF NoStaleKeys
    <3> QED
      BY <1>3, <3>6, <3>7, <3>8, <3>9
  <2> QED
    BY <2>4, <2>5
<1> QED
  BY <1>5, <1>6 DEF bm_connect

----------------------------------------------------------------------------
\* Interface calls and ioctls, which find the lock free.

LEMMA FreeIs ==
  ASSUME IInv, Free
  PROVE  /\ job.pc = "free" /\ job.then # "connect"
         /\ net.carrier <=> st.connected
         /\ ~st.connected => ~st.pairwise_key /\ ~st.group_key
         /\ st.connected => net.up
BY DEF IInv, Free, JobInv, KeyInv, LinkInv, Leaving

LEMMA OpenKeeps == IInv /\ wifi_open => IInv'
<1> SUFFICES ASSUME IInv, wifi_open PROVE IInv'
  OBVIOUS
<1> USE DEF IInv
<1>1. /\ job.pc = "free" /\ job.then # "connect" /\ UNCHANGED <<queue, work, job>> /\ ~net.up
      /\ ~st.connected /\ ~st.pairwise_key /\ ~st.group_key /\ ~net.carrier
  BY FreeIs DEF wifi_open
<1>2. ClearInv'
  BY <1>1 DEF ClearInv
<1>3. CASE UNCHANGED <<st, net>> /\ card' = (IF card = "none" THEN card ELSE "fresh") /\ fw' = Reset
  <2>1. Typed'
    BY <1>1, <1>3, ResetTyped DEF Typed
  <2>2. JobInv'
    BY <1>1, <1>3 DEF JobInv, Leaving, Left
  <2> QED
    BY <1>1, <1>2, <1>3, <2>1, <2>2, ResetTyped, Unlinked DEF LinkInv
<1>4. CASE /\ card # "none"
           /\ st' = [st EXCEPT !.connected = FALSE, !.initialized = TRUE]
           /\ net' = [up |-> TRUE, active |-> TRUE, carrier |-> FALSE, stopped |-> FALSE]
           /\ card' = "running"
           /\ fw' \in Restarted
  <2>1. st' \in Station /\ ~st'.connected /\ ~st'.pairwise_key /\ ~st'.group_key
    BY <1>1, <1>4 DEF Typed, Station
  <2>2. net' \in Interface /\ net'.active = net'.up /\ ~net'.carrier
    BY <1>4 DEF Interface
  <2>3. Typed'
    BY <1>1, <1>4, <2>1, <2>2, ResetTyped DEF Typed, Restarted
  <2>4. JobInv'
    BY <1>1, <2>1, <2>2 DEF JobInv, Leaving, Left
  <2> QED
    BY <1>2, <1>4, <2>1, <2>2, <2>3, <2>4, Unlinked
<1> QED
  BY <1>3, <1>4 DEF wifi_open

LEMMA StopKeeps == IInv /\ wifi_stop => IInv'
<1> SUFFICES ASSUME IInv, wifi_stop PROVE IInv'
  OBVIOUS
<1> USE DEF IInv
<1>1. /\ job.pc = "free" /\ job.then # "connect" /\ UNCHANGED <<card, fw>>
      /\ net' = [up |-> FALSE, active |-> FALSE, carrier |-> FALSE, stopped |-> TRUE]
  BY FreeIs DEF wifi_stop
<1>2. net' \in Interface /\ ~net'.up /\ ~net'.active /\ ~net'.carrier
  BY <1>1 DEF Interface
<1>3. CASE st.initialized /\ card # "none"
  <2>1. UNCHANGED <<st, queue, work>>
    BY <1>3 DEF wifi_stop
  <2>2. job' \in Holding /\ job'.pc = "disconnect" /\ job'.then = "stop"
    BY <1>3, Hired DEF wifi_stop
  <2>3. Typed'
    BY <1>1, <1>2, <2>1, <2>2 DEF Typed
  <2> QED
    BY <1>1, <1>2, <1>3, <2>1, <2>2, <2>3
    DEF LinkInv, KeyInv, JobInv, ClearInv, NoStaleKeys, Leaving, Left
<1>4. CASE ~(st.initialized /\ card # "none")
  <2>1. st' = Stopped(st) /\ queue' = <<>> /\ work' = FALSE /\ UNCHANGED job
    BY <1>4 DEF wifi_stop
  <2>2. st' \in Station /\ ~st'.connected /\ ~st'.pairwise_key /\ ~st'.group_key
    BY <2>1, ZenonT(40) DEF Typed, Station, Stopped, bm_revoke
  <2>3. Typed'
    BY <1>1, <1>2, <2>1, <2>2, NoFrames DEF Typed
  <2>4. JobInv' /\ ClearInv'
    BY <1>1, <1>2, <2>1, <2>2 DEF JobInv, ClearInv, Leaving, Left
  <2> QED
    BY <1>1, <1>2, <2>2, <2>3, <2>4, Unlinked DEF KeyInv
<1> QED
  BY <1>3, <1>4

\* A setting that takes no key and no link away changes what it says only.
LEMMA ConfigKeeps ==
  ASSUME IInv, NEW request, NEW s \in Station, Config(request, s),
         s.connected = st.connected, s.initialized = st.initialized,
         s.ssid = st.ssid, s.bssid = st.bssid,
         s.pairwise_key = st.pairwise_key, s.group_key = st.group_key,
         st.connected => (st.wpa => s.wpa) /\ (s.wep => st.wep)
  PROVE  IInv'
<1> USE DEF IInv
<1>1. /\ st' = s /\ UNCHANGED <<net, queue, work, job, card, fw>>
      /\ job.pc = "free"
  BY FreeIs DEF Config
<1>2. Typed'
  BY <1>1 DEF Typed
<1> QED
  BY <1>1, <1>2 DEF LinkInv, KeyInv, JobInv, ClearInv, NoStaleKeys, Leaving, Left

\* Disconnecting a station with other settings.
LEMMA DroppedKeeps ==
  ASSUME IInv, NEW s \in Station, NEW then \in {"return", "wpa off"},
         s.initialized = st.initialized, wifi_disconnect(s, then)
  PROVE  IInv'
<1> DEFINE off == [bm_revoke(s) EXCEPT !.connected = FALSE, !.ssid = FALSE]
<1> USE DEF IInv
<1>1. /\ job.pc = "free" /\ job.then # "connect" /\ UNCHANGED <<work, card, fw>>
      /\ queue' = <<>> /\ net' = [net EXCEPT !.carrier = FALSE]
  BY FreeIs DEF wifi_disconnect
<1>2. off \in Station /\ ~off.connected /\ ~off.pairwise_key /\ ~off.group_key
      /\ off.initialized = st.initialized
  BY DEF Station, bm_revoke
<1>3. net' \in Interface /\ net'.up = net.up /\ net'.active = net.active /\ ~net'.carrier
  BY <1>1 DEF Typed, Interface
<1>4. CASE net.active /\ st.initialized /\ card # "none"
  <2>1. st' = off /\ job' = [NoJob EXCEPT !.pc = "disconnect", !.then = then]
    BY <1>4 DEF wifi_disconnect
  <2>2. job' \in Holding /\ job'.pc = "disconnect" /\ job'.then = then
    BY <2>1, Hired
  <2>3. Typed'
    BY <1>1, <1>2, <1>3, <2>1, <2>2, NoFrames DEF Typed
  <2>4. JobInv' /\ ClearInv'
    BY <1>2, <1>3, <1>4, <2>1, <2>2 DEF JobInv, ClearInv, Leaving, Left
  <2> QED
    BY <1>1, <1>2, <1>3, <2>1, <2>3, <2>4, Unlinked DEF LinkInv, KeyInv
<1>5. CASE ~(net.active /\ st.initialized /\ card # "none")
  <2>1. st' = [off EXCEPT !.wpa = @ /\ then # "wpa off"] /\ UNCHANGED job
    BY <1>5 DEF wifi_disconnect
  <2>2. st' \in Station /\ ~st'.connected /\ ~st'.pairwise_key /\ ~st'.group_key
    <3>1. (off.wpa /\ then # "wpa off") \in BOOLEAN
      OBVIOUS
    <3> HIDE DEF off
    <3> QED
      BY <1>2, <2>1, <3>1 DEF Station
  <2>3. Typed'
    BY <1>1, <1>3, <2>1, <2>2, NoFrames DEF Typed
  <2>4. JobInv' /\ ClearInv'
    BY <1>1, <1>3, <2>1, <2>2 DEF JobInv, ClearInv, Leaving, Left
  <2> QED
    BY <1>1, <1>3, <2>2, <2>3, <2>4, Unlinked DEF LinkInv, KeyInv
<1> QED
  BY <1>4, <1>5

LEMMA SettingKeeps ==
  IInv /\ (WpaOn \/ SetCipher \/ SetDrop \/ SetWep) => IInv'
<1> SUFFICES ASSUME IInv, WpaOn \/ SetCipher \/ SetDrop \/ SetWep PROVE IInv'
  OBVIOUS
<1> st \in Station /\ (st.connected => net.active /\ st.ssid)
  BY FreeIs DEF WpaOn, SetCipher, SetDrop, SetWep, Config, IInv, Typed, LinkInv
<1>1. CASE WpaOn
  <2> DEFINE s == [st EXCEPT !.wpa = TRUE, !.wep = @ /\ st.wpa]
  <2>1. (st.wep /\ st.wpa) \in BOOLEAN
    OBVIOUS
  <2>2. /\ s \in Station
        /\ s.connected = st.connected /\ s.initialized = st.initialized
        /\ s.ssid = st.ssid /\ s.bssid = st.bssid
        /\ s.pairwise_key = st.pairwise_key /\ s.group_key = st.group_key
        /\ s.wpa /\ (s.wep => st.wep)
    BY <2>1 DEF Station
  <2>3. Config("wpa", s)
    BY <1>1 DEF WpaOn
  <2> HIDE DEF s
  <2> QED
    BY <2>2, <2>3, ConfigKeeps
<1>2. CASE SetCipher
  <2>1. ASSUME NEW on \in BOOLEAN, NEW s,
               s = [st EXCEPT !.pairwise_cipher = on] \/ s = [st EXCEPT !.group_cipher = on],
               Config("cipher", s)
        PROVE  IInv'
    <3>1. /\ s \in Station
          /\ s.connected = st.connected /\ s.initialized = st.initialized
          /\ s.ssid = st.ssid /\ s.bssid = st.bssid
          /\ s.pairwise_key = st.pairwise_key /\ s.group_key = st.group_key
          /\ s.wpa = st.wpa /\ s.wep = st.wep
      BY <2>1 DEF Station
    <3> QED
      BY <2>1, <3>1, ConfigKeeps
  <2> QED
    BY <1>2, <2>1 DEF SetCipher
<1>3. CASE SetDrop
  <2>1. PICK on \in BOOLEAN : Config("drop", [st EXCEPT !.drop_unencrypted = on])
    BY <1>3 DEF SetDrop
  <2> DEFINE s == [st EXCEPT !.drop_unencrypted = on]
  <2>2. /\ s \in Station
        /\ s.connected = st.connected /\ s.initialized = st.initialized
        /\ s.ssid = st.ssid /\ s.bssid = st.bssid
        /\ s.pairwise_key = st.pairwise_key /\ s.group_key = st.group_key
        /\ s.wpa = st.wpa /\ s.wep = st.wep
    BY DEF Station
  <2>3. Config("drop", s)
    BY <2>1
  <2> HIDE DEF s
  <2> QED
    BY <2>2, <2>3, ConfigKeeps
<1>4. CASE SetWep
  <2>1. PICK on \in BOOLEAN : ~(net.active /\ st.ssid) /\ Config("wep", [st EXCEPT !.wep = on])
    BY <1>4 DEF SetWep
  <2> DEFINE s == [st EXCEPT !.wep = on]
  <2>2. /\ s \in Station
        /\ s.connected = st.connected /\ s.initialized = st.initialized
        /\ s.ssid = st.ssid /\ s.bssid = st.bssid
        /\ s.pairwise_key = st.pairwise_key /\ s.group_key = st.group_key
    BY DEF Station
  <2>3. Config("wep", s) /\ ~st.connected
    BY <2>1
  <2> HIDE DEF s
  <2> QED
    BY <2>2, <2>3, ConfigKeeps
<1> QED
  BY <1>1, <1>2, <1>3, <1>4

LEMMA DroppingKeeps ==
  IInv /\ (WpaOff \/ Countermeasures \/ Mlme \/ AnyAp) => IInv'
<1> SUFFICES ASSUME IInv, WpaOff \/ Countermeasures \/ Mlme \/ AnyAp PROVE IInv'
  OBVIOUS
<1> st \in Station
  BY DEF IInv, Typed
<1>1. CASE WpaOff \/ Mlme
  BY <1>1, DroppedKeeps DEF WpaOff, Mlme
<1>2. CASE Countermeasures
  <2>1. CASE wifi_disconnect([st EXCEPT !.countermeasures = TRUE], "return")
    <3>1. /\ [st EXCEPT !.countermeasures = TRUE] \in Station
          /\ [st EXCEPT !.countermeasures = TRUE].initialized = st.initialized
      BY DEF Station
    <3> QED
      BY <2>1, <3>1, DroppedKeeps
  <2>2. CASE Config("countermeasures", [st EXCEPT !.countermeasures = FALSE])
    <3> DEFINE s == [st EXCEPT !.countermeasures = FALSE]
    <3>1. /\ s \in Station
          /\ s.connected = st.connected /\ s.initialized = st.initialized
          /\ s.ssid = st.ssid /\ s.bssid = st.bssid
          /\ s.pairwise_key = st.pairwise_key /\ s.group_key = st.group_key
          /\ s.wpa = st.wpa /\ s.wep = st.wep
      BY DEF Station
    <3>2. Config("countermeasures", s)
      BY <2>2
    <3> HIDE DEF s
    <3> QED
      BY <3>1, <3>2, ConfigKeeps
  <2> QED
    BY <1>2, <2>1, <2>2 DEF Countermeasures
<1>3. CASE AnyAp
  <2>1. /\ [st EXCEPT !.requested_bssid = None] \in Station
        /\ [st EXCEPT !.requested_bssid = None].initialized = st.initialized
    BY DEF Station
  <2> QED
    BY <1>3, <2>1, DroppedKeeps DEF AnyAp
<1> QED
  BY <1>1, <1>2, <1>3

LEMMA SetKeyKeeps == IInv /\ SetKey => IInv'
<1> SUFFICES ASSUME IInv, SetKey PROVE IInv'
  OBVIOUS
<1> USE DEF IInv
<1>1. /\ job.pc = "free" /\ job.then # "connect" /\ (net.carrier <=> st.connected)
      /\ ~st.connected => ~st.pairwise_key /\ ~st.group_key
      /\ UNCHANGED <<net, queue, work, job, card>>
  BY FreeIs DEF SetKey
<1>2. PICK pairwise \in BOOLEAN, key \in {"new", "none"} :
        LET s == [st EXCEPT !.wep = @ /\ key = "new"]
        IN IF ~st.initialized THEN st' = bm_revoke(s) /\ UNCHANGED fw
           ELSE /\ key = "new" => st.connected /\ st.wpa /\ CipherOf(pairwise)
                /\ \E out \in bm_key(pairwise, key) :
                     fw' = out[1] /\ st' = [out[2] EXCEPT !.wep = s.wep]
  BY DEF SetKey
<1> DEFINE wep == st.wep /\ key = "new"
           s == [st EXCEPT !.wep = wep]
<1>3. wep \in BOOLEAN /\ (wep => st.wep)
  OBVIOUS
<1> HIDE DEF wep
<1>4. s \in Station /\ s.connected = st.connected /\ s.wep = wep
  BY <1>3 DEF Typed, Station
<1>5. ClearInv'
  BY <1>1 DEF ClearInv
<1>6. CASE ~st.initialized
  <2>1. st' = bm_revoke(s) /\ UNCHANGED fw /\ ~st.connected
    BY <1>2, <1>6 DEF LinkInv, wep
  <2>2. st' \in Station /\ ~st'.connected /\ ~st'.pairwise_key /\ ~st'.group_key
    BY <1>4, <2>1, Revoked
  <2>3. Typed'
    BY <1>1, <2>1, <2>2 DEF Typed
  <2>4. JobInv'
    BY <1>1, <2>1, <2>2 DEF JobInv, Leaving, Left
  <2> QED
    BY <1>1, <1>5, <2>1, <2>2, <2>3, <2>4, Unlinked DEF LinkInv, KeyInv
<1>7. CASE st.initialized
  <2>1. PICK out \in bm_key(pairwise, key) :
          /\ key = "new" => st.connected /\ st.wpa /\ CipherOf(pairwise)
          /\ fw' = out[1] /\ st' = [out[2] EXCEPT !.wep = wep]
    BY <1>2, <1>4, <1>7 DEF wep
  <2>2. PICK on \in BOOLEAN :
          out[2] = [st EXCEPT ![KeyOf(pairwise)] = on] /\ (on => out[3] /\ key = "new")
    BY KeyCommanded, ZenonT(40)
  <2>3. \/ fw' = fw /\ (out[3] => key = "none" /\ ~CipherOf(pairwise))
        \/ fw' = [fw EXCEPT ![SlotOf(pairwise)] = key] /\ card = "running"
    BY <2>1, KeyCommanded, ZenonT(40)
  <2>4. /\ fw' \in Firmware /\ fw'.assoc = fw.assoc
        /\ pairwise => fw'.group = fw.group /\ fw'.pair \in {fw.pair, key} /\ (on => fw'.pair = "new")
        /\ ~pairwise => fw'.pair = fw.pair /\ fw'.group \in {fw.group, key} /\ (on => fw'.group = "new")
    <3>1. CASE pairwise
      BY <2>2, <2>3, <3>1 DEF SlotOf, Typed, Firmware, Keys
    <3>2. CASE ~pairwise
      BY <2>2, <2>3, <3>2 DEF SlotOf, Typed, Firmware, Keys
    <3> QED
      BY <3>1, <3>2
  <2>5. /\ st' \in Station /\ st'.connected = st.connected /\ st'.initialized = st.initialized
        /\ st'.ssid = st.ssid /\ st'.bssid = st.bssid /\ st'.wpa = st.wpa /\ st'.wep = wep
        /\ pairwise => st'.pairwise_key = on /\ st'.group_key = st.group_key
        /\ ~pairwise => st'.group_key = on /\ st'.pairwise_key = st.pairwise_key
    <3>1. CASE pairwise
      <4>1. st' = [[st EXCEPT !.pairwise_key = on] EXCEPT !.wep = wep]
        BY <2>1, <2>2, <3>1 DEF KeyOf
      <4> QED
        BY <1>3, <3>1, <4>1 DEF Typed, Station
    <3>2. CASE ~pairwise
      <4>1. st' = [[st EXCEPT !.group_key = on] EXCEPT !.wep = wep]
        BY <2>1, <2>2, <3>2 DEF KeyOf
      <4> QED
        BY <1>3, <3>2, <4>1 DEF Typed, Station
    <3> QED
      BY <3>1, <3>2
  <2>6. Typed'
    BY <1>1, <2>4, <2>5 DEF Typed
  <2>7. LinkInv'
    BY <1>1, <1>3, <2>4, <2>5 DEF LinkInv
  <2>8. KeyInv'
    BY <1>1, <2>1, <2>2, <2>4, <2>5 DEF KeyInv
  <2>9. JobInv' /\ NoStaleKeys'
    BY <1>1, <2>4, <2>5 DEF JobInv, NoStaleKeys, Leaving, Left
  <2> QED
    BY <1>5, <2>6, <2>7, <2>8, <2>9
<1> QED
  BY <1>6, <1>7

\* Changing the network: the link is given up before the commands start.
LEMMA SetNetworkKeeps == IInv /\ (SetEssid \/ SetAp) => IInv'
<1> SUFFICES ASSUME IInv, SetEssid \/ SetAp PROVE IInv'
  OBVIOUS
<1> USE DEF IInv
<1>1. /\ job.pc = "free" /\ job.then # "connect" /\ (net.carrier <=> st.connected)
      /\ ~st.connected => ~st.pairwise_key /\ ~st.group_key
      /\ UNCHANGED <<work, card, fw>>
  BY FreeIs DEF SetEssid, SetAp
<1>2. ASSUME NEW then \in {"connect", "return"}, st.initialized, net.active,
             job' = [NoJob EXCEPT !.pc = "disconnect", !.then = then],
             net' = [net EXCEPT !.carrier = FALSE], queue' = <<>>,
             st' \in Station, st'.initialized = st.initialized, st'.wpa = st.wpa,
             st'.pairwise_key = st.pairwise_key, st'.group_key = st.group_key,
             then = "connect" => st'.ssid,
             ~st'.connected \/ (st'.connected = st.connected /\ st'.ssid = st.ssid
                                /\ st'.bssid = st.bssid /\ st'.wep = st.wep)
      PROVE  IInv'
  <2>1. job' \in Holding /\ job'.pc = "disconnect" /\ job'.then = then
    BY <1>2, Hired
  <2>2. net' \in Interface /\ net'.up = net.up /\ net'.active = net.active /\ ~net'.carrier
    BY <1>2 DEF Typed, Interface
  <2>3. Typed'
    BY <1>1, <1>2, <2>1, <2>2, NoFrames DEF Typed
  <2>4. LinkInv'
    BY <1>1, <1>2, <2>1, <2>2 DEF LinkInv
  <2>5. KeyInv' /\ ClearInv' /\ NoStaleKeys'
    BY <1>1, <1>2, <2>1 DEF KeyInv, ClearInv, NoStaleKeys
  <2>6. JobInv'
    BY <1>2, <2>1, <2>2 DEF JobInv, LinkInv, Leaving, Left
  <2> QED
    BY <2>3, <2>4, <2>5, <2>6
<1>3. CASE SetEssid
  <2>1. PICK some \in BOOLEAN :
          /\ st' = [st EXCEPT !.ssid = some, !.connected = FALSE]
          /\ job' = [NoJob EXCEPT !.pc = "disconnect",
                                  !.then = IF some THEN "connect" ELSE "return"]
    BY <1>3 DEF SetEssid
  <2>2. /\ st' \in Station /\ st'.initialized = st.initialized /\ st'.wpa = st.wpa
        /\ st'.pairwise_key = st.pairwise_key /\ st'.group_key = st.group_key
        /\ st'.ssid = some /\ ~st'.connected
    BY <2>1 DEF Typed, Station
  <2>3. /\ st.initialized /\ net.active /\ queue' = <<>>
        /\ net' = [net EXCEPT !.carrier = FALSE]
    BY <1>3 DEF SetEssid
  <2> QED
    BY <1>2, <2>1, <2>2, <2>3
<1>4. CASE SetAp
  <2>1. PICK ap \in AP :
          /\ st' = [st EXCEPT !.requested_bssid = ap]
          /\ IF st.ssid /\ net.active /\ st.initialized /\ st.bssid # ap
             THEN /\ queue' = <<>> /\ net' = [net EXCEPT !.carrier = FALSE]
                  /\ job' = [NoJob EXCEPT !.pc = "disconnect", !.then = "connect"]
             ELSE UNCHANGED <<queue, net, job>>
    BY <1>4 DEF SetAp
  <2>2. /\ st' \in Station /\ st'.initialized = st.initialized /\ st'.wpa = st.wpa
        /\ st'.pairwise_key = st.pairwise_key /\ st'.group_key = st.group_key
        /\ st'.connected = st.connected /\ st'.ssid = st.ssid
        /\ st'.bssid = st.bssid /\ st'.wep = st.wep
    BY <2>1 DEF Typed, Station
  <2>3. CASE st.ssid /\ net.active /\ st.initialized /\ st.bssid # ap
    BY <1>2, <2>1, <2>2, <2>3
  <2>4. CASE ~(st.ssid /\ net.active /\ st.initialized /\ st.bssid # ap)
    <3>1. UNCHANGED <<queue, net, job>>
      BY <2>1, <2>4
    <3>2. Typed'
      BY <1>1, <2>2, <3>1 DEF Typed
    <3> QED
      BY <1>1, <2>2, <3>1, <3>2
      DEF LinkInv, KeyInv, JobInv, ClearInv, NoStaleKeys, Leaving, Left
  <2> QED
    BY <2>3, <2>4
<1> QED
  BY <1>3, <1>4

----------------------------------------------------------------------------

LEMMA InvInit == Init => IInv
<1> SUFFICES ASSUME Init PROVE IInv
  OBVIOUS
<1>1. st \in Station /\ ~st.connected /\ ~st.pairwise_key /\ ~st.group_key
  BY DEF Init, Station
<1>2. net \in Interface /\ net.active = net.up /\ ~net.carrier
  BY DEF Init, Interface
<1>3. job \in Holding /\ job.pc = "free" /\ job.then = "return"
  BY DEF Init, NoJob, Holding, Points, Frames
<1>4. Typed
  BY <1>1, <1>2, <1>3, NoFrames, ResetTyped DEF Init, Typed
<1>5. LinkInv /\ KeyInv /\ NoStaleKeys
  BY <1>1, <1>2, ResetTyped DEF Init, LinkInv, KeyInv, NoStaleKeys
<1>6. JobInv /\ ClearInv
  BY <1>1, <1>2, <1>3 DEF JobInv, ClearInv, Leaving, Left
<1> QED
  BY <1>4, <1>5, <1>6 DEF IInv

LEMMA InvNext == IInv /\ [Next]_vars => IInv'
<1> SUFFICES ASSUME IInv, [Next]_vars PROVE IInv'
  OBVIOUS
<1>1. CASE Holder
  BY <1>1, PollKeeps, SendKeeps, DisconnectKeeps, ClearKeeps, DisconnectedKeeps, ConnectKeeps
  DEF Holder
<1>2. CASE Call
  BY <1>2, OpenKeeps, StopKeeps, SettingKeeps, DroppingKeeps, SetKeyKeeps, SetNetworkKeeps
  DEF Call
<1>3. CASE UNCHANGED vars
  <2>1. UNCHANGED <<st, net, queue, work, job, card, fw>>
    BY <1>3 DEF vars
  <2>2. Typed' /\ JobInv'
    BY <2>1 DEF IInv, Typed, JobInv, bw_data_allowed
  <2> QED
    BY <2>1, <2>2 DEF IInv, LinkInv, KeyInv, ClearInv, NoStaleKeys
<1> QED
  BY <1>1, <1>2, <1>3, EnvironmentKeeps, WorkerKeeps DEF Next

\* What station, firmware and the holder of the lock know of each other always
\* holds: each step of wifi.c keeps it.
THEOREM Invariant == Spec => []IInv
BY InvInit, InvNext, PTL DEF Spec

\* Station, interface, lock, card and firmware keep their types, and the queue
\* stays within its bound: wifi_xmit turns a frame away that comes while the
\* worker has woken a queue filled again since it was found empty.
THEOREM TypeCorrect == Spec => []TypeOK
<1>1. IInv => TypeOK
  BY DEF IInv, Typed, TypeOK, Station, Interface, Holding, Points, Firmware
<1> QED
  BY <1>1, Invariant, PTL

\* No data frame goes to a card associated with a WPA network that does not
\* hold both keys of this association (bw_data_allowed, bm_key).
THEOREM Keyed == Spec => []KeyedBeforeData
<1>1. IInv => KeyedBeforeData
  BY DEF IInv, LinkInv, KeyInv, JobInv, KeyedBeforeData, Sending, bw_data_allowed, Typed, Firmware
<1> QED
  BY <1>1, Invariant, PTL

\* With drop_unencrypted set nothing goes to an open network (bw_data_allowed; WEP
\* keys do not change while a network is set).
THEOREM Dropped == Spec => []DropUnencrypted
<1>1. IInv => DropUnencrypted
  BY DEF IInv, LinkInv, JobInv, DropUnencrypted, Sending, bw_data_allowed, Typed, Firmware
<1> QED
  BY <1>1, Invariant, PTL

\* A link to a WPA network starts with the slots of the last one cleared.
THEOREM NoneStale == Spec => []NoStaleKeys
<1>1. IInv => NoStaleKeys
  BY DEF IInv
<1> QED
  BY <1>1, Invariant, PTL

\* Whoever releases wifi_sem leaves no key in use without a link.
THEOREM Revocation == Spec => []RevokedWithLink
<1>1. IInv => RevokedWithLink
  BY FreeIs DEF RevokedWithLink
<1> QED
  BY <1>1, Invariant, PTL

\* Whoever releases wifi_sem leaves the carrier as the link is.
THEOREM CarrierCorrect == Spec => []CarrierAgrees
<1>1. IInv => CarrierAgrees
  BY FreeIs DEF CarrierAgrees, IInv, Typed, Station, Interface
<1> QED
  BY <1>1, Invariant, PTL

=============================================================================
