-------------------------------- MODULE Wifi --------------------------------
(***************************************************************************)
(* The CF8385 station driver (wifi.c, wifi-proto.h).  One sleeping lock    *)
(* serializes the worker, the interface calls and the ioctls.  A card      *)
(* command sleeps with the lock held; meanwhile the network stack queues   *)
(* frames, the timer schedules the worker, the access point drops the      *)
(* station and the user pulls the card.                                    *)
(***************************************************************************)
EXTENDS Integers, Sequences

CONSTANTS
  AP,         \* access points in range, all with the requested SSID
  Security,   \* [AP -> {"open", "wep", "wpa"}], as their beacons say
  QueueMax,   \* frames the driver queues (8)
  Requests,   \* the ioctls in use
  None        \* no access point

ASSUME WifiAssumption ==
  /\ Security \in [AP -> {"open", "wep", "wpa"}] /\ None \notin AP
  /\ QueueMax \in Nat \ {0}

VARIABLES
  st,      \* struct bw_state
  net,     \* [up, active, carrier, stopped]: the interface and `active`
  queue,   \* transmit
  work,    \* the worker is scheduled
  job,     \* the holder of wifi_sem: [pc, then, failed, frame]
  card,    \* the socket: "none", "fresh" (not initialized), "running"
  fw       \* the card's firmware: [assoc, pair, group, lost]

vars == <<st, net, queue, work, job, card, fw>>

Frames == {"data", "eapol"}
Keys == {"none", "new", "old"}    \* old: given for an earlier association

Reset == [assoc |-> None, pair |-> "none", group |-> "none", lost |-> FALSE]

NoJob == [pc |-> "free", then |-> "return", failed |-> FALSE, frame |-> "data"]

Free == job.pc = "free"
Release == job' = NoJob
Goto(pc) == job' = [job EXCEPT !.pc = pc]

bm_revoke(s) == [s EXCEPT !.pairwise_key = FALSE, !.group_key = FALSE]

\* bm_command: <<firmware, success>> for a command with this effect, which may
\* be not done, done, or done but not answered in time.
bm_command(effect) ==
  {<<fw, FALSE>>} \cup
  (IF card = "running" THEN {<<effect, TRUE>>, <<effect, FALSE>>} ELSE {})

----------------------------------------------------------------------------
\* The stack, the timer, the user's hand and the air.

\* Bug: the stack is trusted to heed a full queue.
XmitUnbounded == \E frame \in Frames :
  /\ net.up /\ ~net.stopped
  /\ queue' = Append(queue, frame)
  /\ net' = [net EXCEPT !.stopped = Len(queue') >= QueueMax]
  /\ work' = TRUE
  /\ UNCHANGED <<st, job, card, fw>>

wifi_xmit == \E frame \in Frames :
  /\ net.up /\ ~net.stopped
  /\ queue' = IF Len(queue) >= QueueMax THEN queue ELSE Append(queue, frame)
  /\ net' = [net EXCEPT !.stopped = Len(queue') >= QueueMax]
  /\ work' = (work \/ Len(queue) < QueueMax)
  /\ UNCHANGED <<st, job, card, fw>>

wifi_tick ==
  /\ net.active
  /\ work' = TRUE
  /\ UNCHANGED <<st, net, queue, job, card, fw>>

Remove ==
  /\ card # "none"
  /\ card' = "none" /\ fw' = Reset
  /\ UNCHANGED <<st, net, queue, work, job>>

Insert ==
  /\ card = "none"
  /\ card' = "fresh"
  /\ UNCHANGED <<st, net, queue, work, job, fw>>

Deauthenticated ==
  /\ fw.assoc # None
  /\ fw' = [fw EXCEPT !.assoc = None, !.lost = TRUE]
  /\ UNCHANGED <<st, net, queue, work, job, card>>

----------------------------------------------------------------------------
\* The worker: removal, events, then the queue.

wifi_worker ==
  /\ Free /\ work
  /\ work' = FALSE
  /\ IF ~net.active \/ ~st.initialized THEN UNCHANGED <<st, net, queue, job>>
     ELSE IF card = "none"
     THEN /\ st' = [bm_revoke(st) EXCEPT !.connected = FALSE, !.initialized = FALSE,
                                         !.wep = FALSE]
          /\ net' = [net EXCEPT !.carrier = FALSE, !.stopped = TRUE]
          /\ queue' = <<>>
          /\ UNCHANGED job
     ELSE Goto("poll") /\ UNCHANGED <<st, net, queue>>
  /\ UNCHANGED <<card, fw>>

\* Bug: the driver notes the card gone and not the link.
PollGoneKeepsLink ==
  /\ job.pc = "poll" /\ card # "running"
  /\ st' = [bm_revoke(st) EXCEPT !.initialized = FALSE]
  /\ net' = [net EXCEPT !.stopped = TRUE]
  /\ queue' = <<>>
  /\ Goto("send")
  /\ UNCHANGED <<work, card, fw>>

\* All ones: the card went after the worker looked, or is another one.
PollGone ==
  /\ job.pc = "poll" /\ card # "running"
  /\ st' = [bm_revoke(st) EXCEPT !.connected = FALSE, !.initialized = FALSE]
  /\ net' = [net EXCEPT !.carrier = IF st.connected THEN FALSE ELSE @, !.stopped = TRUE]
  /\ queue' = <<>>
  /\ Goto("send")
  /\ UNCHANGED <<work, card, fw>>

\* Bug: a lost link keeps its keys.
PollLostKeepsKeys ==
  /\ job.pc = "poll" /\ card = "running" /\ fw.lost
  /\ fw' = [fw EXCEPT !.lost = FALSE]
  /\ st' = [st EXCEPT !.connected = FALSE]
  /\ net' = [net EXCEPT !.carrier = IF st.connected THEN FALSE ELSE @]
  /\ Goto("send")
  /\ UNCHANGED <<queue, work, card>>

\* The firmware reports the link lost, deauthenticated or disassociated.
PollLost ==
  /\ job.pc = "poll" /\ card = "running" /\ fw.lost
  /\ fw' = [fw EXCEPT !.lost = FALSE]
  /\ IF st.connected
     THEN /\ st' = [bm_revoke(st) EXCEPT !.connected = FALSE]
          /\ net' = [net EXCEPT !.carrier = FALSE]
     ELSE UNCHANGED <<st, net>>
  /\ Goto("send")
  /\ UNCHANGED <<queue, work, card>>

PollQuiet ==
  /\ job.pc = "poll" /\ card # "none" /\ ~fw.lost
  /\ Goto("send")
  /\ UNCHANGED <<st, net, queue, work, card, fw>>

bw_data_allowed(frame) ==
  /\ st.connected /\ ~st.countermeasures
  /\ \/ ~st.wpa /\ (~st.drop_unencrypted \/ st.wep)
     \/ st.wpa /\ st.pairwise_key /\ st.group_key
     \/ frame = "eapol"

Dequeue ==
  /\ job.pc = "send" /\ queue # <<>>
  /\ queue' = Tail(queue)
  /\ IF bw_data_allowed(Head(queue))
     THEN job' = [job EXCEPT !.pc = "sending", !.frame = Head(queue)]
     ELSE UNCHANGED job
  /\ UNCHANGED <<st, net, work, card, fw>>

\* The frame goes out, or the wait for the card's buffer gives up.
bm_send ==
  /\ job.pc = "sending"
  /\ Goto("send")
  /\ UNCHANGED <<st, net, queue, work, card, fw>>

\* skb_dequeue() finds nothing; the stack may fill the queue before the wake.
DequeueNone ==
  /\ job.pc = "send" /\ queue = <<>>
  /\ Goto("wake")
  /\ UNCHANGED <<st, net, queue, work, card, fw>>

\* Bug: a stopped queue is left stopped.
WorkerForgets ==
  /\ job.pc = "wake"
  /\ Release
  /\ UNCHANGED <<st, net, queue, work, card, fw>>

\* The wake, however full the queue is by now.
WorkerDone ==
  /\ job.pc = "wake"
  /\ net' = [net EXCEPT !.stopped = IF net.active THEN FALSE ELSE @]
  /\ Release
  /\ UNCHANGED <<st, queue, work, card, fw>>

----------------------------------------------------------------------------
\* bm_key: the slot is out of use until the firmware has accepted the key.

KeyOf(pairwise) == IF pairwise THEN "pairwise_key" ELSE "group_key"
CipherOf(pairwise) == IF pairwise THEN st.pairwise_cipher ELSE st.group_cipher
SlotOf(pairwise) == IF pairwise THEN "pair" ELSE "group"

\* Bug: a slot whose key could not be replaced stays in use.
KeyKept(pairwise, key) ==
  {<<out[1], [st EXCEPT ![KeyOf(pairwise)] = IF out[2] THEN key = "new" ELSE @], out[2]>> :
     out \in bm_command([fw EXCEPT ![SlotOf(pairwise)] = key])}

\* <<firmware, station, success>>; no command clears a slot that has no cipher.
bm_key(pairwise, key) ==
  IF key = "none" /\ ~CipherOf(pairwise)
  THEN {<<fw, [st EXCEPT ![KeyOf(pairwise)] = FALSE], TRUE>>}
  ELSE {<<out[1], [st EXCEPT ![KeyOf(pairwise)] = out[2] /\ key = "new"], out[2]>> :
          out \in bm_command([fw EXCEPT ![SlotOf(pairwise)] = key])}

----------------------------------------------------------------------------
\* bm_disconnect, one command at a time, then what its caller does next.

\* Bug: only keys still in use are cleared in the firmware.
ClearsInUse(s) == s.pairwise_key \/ s.group_key

Clears(s) == s.wpa \/ s.pairwise_key \/ s.group_key

bm_disconnect ==
  /\ job.pc = "disconnect"
  /\ \E out \in IF st.bssid = None THEN {<<fw, TRUE>>}
                ELSE bm_command([fw EXCEPT !.assoc = None]) :
       /\ fw' = out[1]
       /\ job' = [job EXCEPT !.pc = IF Clears(st) THEN "clear group" ELSE "disconnected",
                             !.failed = ~out[2]]
  /\ st' = [bm_revoke(st) EXCEPT !.connected = FALSE, !.bssid = None]
  /\ UNCHANGED <<net, queue, work, card>>

ClearKey(pairwise, from, to) ==
  /\ job.pc = from
  /\ \E out \in bm_key(pairwise, "none") :
       /\ fw' = out[1] /\ st' = out[2]
       /\ job' = [job EXCEPT !.pc = to, !.failed = @ \/ ~out[3]]
  /\ UNCHANGED <<net, queue, work, card>>

ClearGroup == ClearKey(FALSE, "clear group", "clear pairwise")
ClearPairwise == ClearKey(TRUE, "clear pairwise", "disconnected")

\* wifi_stop forgets the station's configuration but for its SSID and ciphers.
Stopped(s) ==
  [bm_revoke(s) EXCEPT !.connected = FALSE, !.initialized = FALSE, !.wpa = FALSE, !.wep = FALSE,
                       !.drop_unencrypted = FALSE, !.countermeasures = FALSE,
                       !.requested_bssid = None]

Disconnected ==
  /\ job.pc = "disconnected"
  /\ IF job.then = "connect" /\ ~job.failed /\ ~st.countermeasures
     THEN Goto("connect") /\ UNCHANGED <<st, queue, work>>
     ELSE /\ Release
          /\ st' = IF job.then = "stop" THEN Stopped(st)
                   ELSE IF job.then = "wpa off" THEN [st EXCEPT !.wpa = FALSE]
                   ELSE st
          /\ queue' = IF job.then = "stop" THEN <<>> ELSE queue
          /\ work' = (work /\ job.then # "stop")
  /\ UNCHANGED <<net, card, fw>>

\* The access points bm_connect accepts with the configuration as it is: with
\* WPA by their privacy bit and the driver's own ciphers, whatever they speak;
\* without, by the privacy bit and the absence of a WPA element.
Acceptable == {ap \in AP :
  /\ st.requested_bssid \in {None, ap}
  /\ IF st.wpa THEN Security[ap] # "open" /\ st.pairwise_cipher /\ st.group_cipher
     ELSE Security[ap] = IF st.wep THEN "wep" ELSE "open"}

Associated(ap) ==
  [fw EXCEPT !.assoc = ap,
             !.pair = IF @ = "new" THEN "old" ELSE @,
             !.group = IF @ = "new" THEN "old" ELSE @]

bm_connect ==
  /\ job.pc = "connect"
  /\ Release
  /\ \/ UNCHANGED <<st, net, fw>>     \* no scan, network or element, or a command failed
     \/ \E ap \in Acceptable : \E out \in bm_command(Associated(ap)) :
          /\ fw' = out[1]
          /\ st' = IF out[2] THEN [st EXCEPT !.connected = TRUE, !.bssid = ap] ELSE st
          /\ net' = [net EXCEPT !.carrier = @ \/ out[2]]
  /\ UNCHANGED <<queue, work, card>>

----------------------------------------------------------------------------
\* The interface calls.

Restarted == {Reset, fw}     \* the card's reset may keep a running firmware

wifi_open ==
  /\ Free /\ ~net.up
  /\ \/ UNCHANGED <<st, net>> /\ card' = (IF card = "none" THEN card ELSE "fresh") /\ fw' = Reset
     \/ /\ card # "none"
        /\ st' = [st EXCEPT !.connected = FALSE, !.initialized = TRUE]
        /\ net' = [up |-> TRUE, active |-> TRUE, carrier |-> FALSE, stopped |-> FALSE]
        /\ card' = "running"
        /\ fw' \in Restarted
  /\ UNCHANGED <<queue, work, job>>

wifi_stop ==
  /\ Free /\ net.up
  /\ net' = [up |-> FALSE, active |-> FALSE, carrier |-> FALSE, stopped |-> TRUE]
  /\ IF st.initialized /\ card # "none"
     THEN /\ job' = [NoJob EXCEPT !.pc = "disconnect", !.then = "stop"]
          /\ UNCHANGED <<st, queue, work>>
     ELSE st' = Stopped(st) /\ queue' = <<>> /\ work' = FALSE /\ UNCHANGED job
  /\ UNCHANGED <<card, fw>>

----------------------------------------------------------------------------
\* The wireless ioctls.

Config(request, s) ==
  /\ Free /\ request \in Requests
  /\ st' = s
  /\ UNCHANGED <<net, queue, work, job, card, fw>>

\* wifi_disconnect, of a station left as s.
wifi_disconnect(s, then) ==
  /\ Free
  /\ queue' = <<>>
  /\ net' = [net EXCEPT !.carrier = FALSE]
  /\ LET off == [bm_revoke(s) EXCEPT !.connected = FALSE, !.ssid = FALSE]
     IN IF net.active /\ st.initialized /\ card # "none"
        THEN st' = off /\ job' = [NoJob EXCEPT !.pc = "disconnect", !.then = then]
        ELSE st' = [off EXCEPT !.wpa = @ /\ then # "wpa off"] /\ UNCHANGED job
  /\ UNCHANGED <<work, card, fw>>

WpaOn == Config("wpa", [st EXCEPT !.wpa = TRUE, !.wep = @ /\ st.wpa])

WpaOff == "wpa" \in Requests /\ st.wpa /\ wifi_disconnect(st, "wpa off")

SetCipher == \E on \in BOOLEAN :
  \/ Config("cipher", [st EXCEPT !.pairwise_cipher = on])
  \/ Config("cipher", [st EXCEPT !.group_cipher = on])

SetDrop == \E on \in BOOLEAN : Config("drop", [st EXCEPT !.drop_unencrypted = on])

Countermeasures == "countermeasures" \in Requests /\
  \/ wifi_disconnect([st EXCEPT !.countermeasures = TRUE], "return")
  \/ Config("countermeasures", [st EXCEPT !.countermeasures = FALSE])

Mlme == "mlme" \in Requests /\ wifi_disconnect(st, "return")

\* wifi_encode_ext: a WPA key, which needs its link, or a slot to be cleared.
SetKey == \E pairwise \in BOOLEAN, key \in {"new", "none"} :
  /\ Free /\ "key" \in Requests
  /\ key = "new" /\ pairwise => st.bssid # None
  /\ LET s == [st EXCEPT !.wep = @ /\ key = "new"]
     IN IF ~st.initialized THEN st' = bm_revoke(s) /\ UNCHANGED fw
        ELSE /\ key = "new" => st.connected /\ st.wpa /\ CipherOf(pairwise)
             /\ \E out \in bm_key(pairwise, key) :
                  fw' = out[1] /\ st' = [out[2] EXCEPT !.wep = s.wep]
  /\ UNCHANGED <<net, queue, work, job, card>>

\* Bug: the WEP keys change under an association.
SetWepAnyTime == \E on \in BOOLEAN : Config("wep", [st EXCEPT !.wep = on])

SetWep == \E on \in BOOLEAN :
  /\ ~(net.active /\ st.ssid)
  /\ Config("wep", [st EXCEPT !.wep = on])

\* Bug: the carrier stays on while the station changes network.
SetEssidCarrierOn == \E some \in BOOLEAN :
  /\ Free /\ "essid" \in Requests /\ net.active /\ st.initialized
  /\ st' = [st EXCEPT !.ssid = some, !.connected = FALSE]
  /\ queue' = <<>>
  /\ job' = [NoJob EXCEPT !.pc = "disconnect", !.then = IF some THEN "connect" ELSE "return"]
  /\ UNCHANGED <<net, work, card, fw>>

SetEssid == \E some \in BOOLEAN :
  /\ Free /\ "essid" \in Requests /\ net.active /\ st.initialized
  /\ st' = [st EXCEPT !.ssid = some, !.connected = FALSE]
  /\ queue' = <<>>
  /\ net' = [net EXCEPT !.carrier = FALSE]
  /\ job' = [NoJob EXCEPT !.pc = "disconnect", !.then = IF some THEN "connect" ELSE "return"]
  /\ UNCHANGED <<work, card, fw>>

SetAp == \E ap \in AP :
  /\ Free /\ "ap" \in Requests
  /\ st' = [st EXCEPT !.requested_bssid = ap]
  /\ IF st.ssid /\ net.active /\ st.initialized /\ st.bssid # ap
     THEN /\ queue' = <<>> /\ net' = [net EXCEPT !.carrier = FALSE]
          /\ job' = [NoJob EXCEPT !.pc = "disconnect", !.then = "connect"]
     ELSE UNCHANGED <<queue, net, job>>
  /\ UNCHANGED <<work, card, fw>>

AnyAp == "ap" \in Requests /\ wifi_disconnect([st EXCEPT !.requested_bssid = None], "return")

----------------------------------------------------------------------------
Init ==
  /\ st = [connected |-> FALSE, initialized |-> FALSE, wpa |-> FALSE, wep |-> FALSE,
           pairwise_cipher |-> FALSE, group_cipher |-> FALSE, pairwise_key |-> FALSE,
           group_key |-> FALSE, drop_unencrypted |-> FALSE, countermeasures |-> FALSE,
           ssid |-> FALSE, bssid |-> None, requested_bssid |-> None]
  /\ net = [up |-> FALSE, active |-> FALSE, carrier |-> FALSE, stopped |-> TRUE]
  /\ queue = <<>> /\ work = FALSE /\ job = NoJob
  /\ card = "fresh" /\ fw = Reset

Environment == wifi_xmit \/ wifi_tick \/ Remove \/ Insert \/ Deauthenticated

Holder ==
  \/ PollGone \/ PollLost \/ PollQuiet
  \/ Dequeue \/ bm_send \/ DequeueNone \/ WorkerDone
  \/ bm_disconnect \/ ClearGroup \/ ClearPairwise \/ Disconnected \/ bm_connect

Call ==
  \/ wifi_open \/ wifi_stop \/ WpaOn \/ WpaOff \/ SetCipher \/ SetDrop \/ Countermeasures
  \/ Mlme \/ SetKey \/ SetWep \/ SetEssid \/ SetAp \/ AnyAp

Next == Environment \/ Holder \/ wifi_worker \/ Call

Spec == Init /\ [][Next]_vars

\* Every wait of the holder is bounded, the timer fires while the interface is
\* active, and the lock is handed to its waiters in turn.
FairSpec == Spec /\ WF_vars(Holder) /\ WF_vars(wifi_tick) /\ SF_vars(wifi_worker)

----------------------------------------------------------------------------
\* Types, and: the lock's holder is where wifi-proto.h can be.
TypeOK ==
  /\ st \in [connected : BOOLEAN, initialized : BOOLEAN, wpa : BOOLEAN, wep : BOOLEAN,
             pairwise_cipher : BOOLEAN, group_cipher : BOOLEAN, pairwise_key : BOOLEAN,
             group_key : BOOLEAN, drop_unencrypted : BOOLEAN, countermeasures : BOOLEAN,
             ssid : BOOLEAN, bssid : AP \cup {None}, requested_bssid : AP \cup {None}]
  /\ net \in [up : BOOLEAN, active : BOOLEAN, carrier : BOOLEAN, stopped : BOOLEAN]
  /\ queue \in Seq(Frames) /\ Len(queue) <= QueueMax
  /\ work \in BOOLEAN
  /\ job \in [pc : {"free", "poll", "send", "sending", "wake", "disconnect",
                    "clear group", "clear pairwise", "disconnected", "connect"},
              then : {"return", "connect", "stop", "wpa off"},
              failed : BOOLEAN, frame : Frames]
  /\ card \in {"none", "fresh", "running"}
  /\ fw \in [assoc : AP \cup {None}, pair : Keys, group : Keys, lost : BOOLEAN]

Sending(frame) == job.pc = "sending" /\ job.frame = frame

\* A data frame goes to the card, while its firmware is associated with a WPA
\* network, only if that firmware holds both keys of this association.
KeyedBeforeData ==
  Sending("data") /\ fw.assoc # None /\ Security[fw.assoc] = "wpa" =>
    fw.pair = "new" /\ fw.group = "new"

\* With drop_unencrypted set and WPA off, no data frame goes to the card while
\* its firmware is associated with an open network.
DropUnencrypted ==
  Sending("data") /\ fw.assoc # None /\ st.drop_unencrypted /\ ~st.wpa =>
    Security[fw.assoc] # "open"

\* A station connected to a WPA network holds no key of an earlier association:
\* bm_disconnect clears the firmware's slots, and bm_connect gives up if it cannot.
NoStaleKeys ==
  st.connected /\ Security[st.bssid] = "wpa" => fw.pair # "old" /\ fw.group # "old"

\* Whoever releases the lock leaves no key in use without a link.
RevokedWithLink == Free /\ ~st.connected => ~st.pairwise_key /\ ~st.group_key

\* Whoever releases the lock leaves the carrier as the link is.
CarrierAgrees == Free => net.carrier = st.connected

\* "Removal stops the carrier ..." (docs/WIFI_SOUND.md 70): a card that is
\* pulled and stays out costs the driver its link, its carrier and the use of
\* the card, whether the worker, poll_card or wifi_stop comes upon it first.
RemovalNoticed ==
  net.up /\ card = "none" ~>
    card # "none" \/ (~st.initialized /\ ~st.connected /\ ~net.carrier)

\* A queue that filled up is woken again, unless the card or the interface goes.
QueueWoken ==
  net.stopped /\ net.active /\ st.initialized ~>
    ~net.stopped \/ ~net.active \/ ~st.initialized

\* docs/WIFI_SOUND.md: removal stops the carrier and queue and discards pending
\* packets and keys.
RemovalStops ==
  Free /\ net.active /\ ~st.initialized =>
    ~net.carrier /\ net.stopped /\ queue = <<>> /\ ~st.wep
=============================================================================
