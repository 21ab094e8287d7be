------------------------------- MODULE NetSender -------------------------------
(***************************************************************************)
(* NetworkSidBackend (sid/sid_netdevice.cpp) between its two threads: the  *)
(* emulation thread queues requests, the sender thread owns the socket,    *)
(* and a software Network SID Device server answers.  One packet of writes *)
(* is one request with the tune time it carries.  A BUSY answer and its    *)
(* retry change nothing and are left out: the time a server may stay BUSY  *)
(* is bounded by kMaxBusyTime, a missing answer by the socket's timeout.   *)
(***************************************************************************)
EXTENDS Integers, Sequences

CONSTANTS Counts,       \* chip counts the session asks for
          Fallback,     \* counts tried after an ERROR: 8, 4, 1
          Kinds,        \* servers: room for chips, takes FM, lists its configs
          PacketCycles, \* tune time of one packet of writes
          MaxInflight,  \* kMaxInflightCycles
          MaxCalls      \* calls of the emulation thread

ASSUME NetSenderAssumption ==
  /\ Counts \subseteq Nat \ {0} /\ Fallback \subseteq Nat \ {0}
  /\ Kinds \subseteq [cap : Nat \ {0}, takesFm : BOOLEAN, lists : BOOLEAN]
  /\ PacketCycles \subseteq Nat /\ MaxInflight \in Nat /\ MaxCalls \in Nat
  /\ 1 \in Fallback

VARIABLES queue,      \* queue_
          inflight,   \* inflight_cycles_
          connected,  \* connected_
          running,    \* running_
          sidCount,   \* sid_count_
          wireLimit,  \* wire_limit_
          fmSent,     \* fm_opl_sent_
          fmRefused,  \* fm_opl_refused_
          sender,     \* the sender thread: where it is, its request, the count tried
          todo,       \* what is left of the emulation thread's call
          calls,      \* calls so far
          server,     \* the server at the other end
          overtaken   \* history: a count was asked for while a larger one was pending

queueVars == <<queue, inflight>>
linkVars  == <<connected, running>>
fmVars    == <<fmSent, fmRefused>>
callVars  == <<calls, overtaken>>
vars == <<queueVars, linkVars, fmVars, sidCount, wireLimit, sender, todo, callVars, server>>

-----------------------------------------------------------------------------
Commands == {"Count", "Position", "Model", "Clock", "Write", "Flush", "Reset", "Fm"}

Request(cmd, sid, cycles) == [cmd |-> cmd, sid |-> sid, cycles |-> cycles]
Plain(cmd) == Request(cmd, 0, 0)
Nothing == Plain("Flush")

\* The request block that gives a software server its chips, the first of them a model
ChipSetup(chips, models) ==
  << Request("Count", chips, 0) >>
    \o [c \in 1 .. chips |-> Request("Position", c - 1, 0)]
    \o [c \in 1 .. models |-> Request("Model", c - 1, 0)]
    \o << Plain("Clock") >>

\* What a call still has to do, step by step
Do(step) == [do |-> step, request |-> Nothing]
Enqueue(request) == [do |-> "Enqueue", request |-> request]

CloseSteps == << Do("Stop"), Do("Drop"), Do("Notify"), Do("Join"), Do("Close") >>
\* Mutant of ResetSteps: the dropped chip setup is not queued again
ResetStepsNoSetup ==
  << Do("Drop"), Enqueue(Plain("Flush")), Enqueue(Plain("Reset")), Do("FmAgain") >>

\* Mutant of ResetSteps: the dropped FM request is not queued again
ResetStepsNoFm ==
  << Do("Drop"), Enqueue(Plain("Flush")), Do("Setup"), Enqueue(Plain("Reset")) >>

ResetSteps == << Do("Drop"), Enqueue(Plain("Flush")), Do("Setup"),
                 Enqueue(Plain("Reset")), Do("FmAgain") >>

CyclesOf(requests) ==
  LET upTo[n \in 0 .. Len(requests)] ==
        IF n = 0 THEN 0 ELSE upTo[n - 1] + requests[n].cycles
  IN  upTo[Len(requests)]

\* Mutant of Minus: no clamp, a dead link has already set the count to 0
MinusUnclamped(a, b) == a - b

Minus(a, b) == IF a > b THEN a - b ELSE 0

NoLimit == 255

Unplugged == [chips |-> 0, positions |-> {}, models |-> {}, clocked |-> FALSE,
              fm |-> FALSE, cap |-> 0, takesFm |-> FALSE, lists |-> FALSE]

\* A server at the other end of a new connection
FreshServers ==
  {[Unplugged EXCEPT !.cap = k.cap, !.takesFm = k.takesFm, !.lists = k.lists] : k \in Kinds}

Init ==
  /\ queue = << >> /\ inflight = 0
  /\ connected = FALSE /\ running = FALSE
  /\ sidCount = 1 /\ wireLimit = NoLimit
  /\ fmSent = FALSE /\ fmRefused = FALSE
  /\ sender = [at |-> "None", request |-> Nothing, tried |-> 0, ok |-> FALSE]
  /\ todo = << >> /\ calls = 0 /\ overtaken = FALSE
  /\ server = Unplugged

-----------------------------------------------------------------------------
(* Calls of the emulation thread.  Each runs to its end before the next.   *)

Call(steps) ==
  /\ todo = << >>
  /\ calls < MaxCalls
  /\ calls' = calls + 1
  /\ todo' = steps
  /\ UNCHANGED <<queueVars, linkVars, wireLimit, sender, server>>

\* The counts asked for that the server has not settled
CountsAsked ==
  LET unsettled == {queue[i] : i \in DOMAIN queue}
                     \cup (IF sender.at \in {"Asking", "Answer"} THEN {sender.request} ELSE {})
  IN  {r.sid : r \in {r \in unsettled : r.cmd = "Count"}}

SetSidCount(n) ==
  /\ Call(IF connected THEN << Do("Setup") >> ELSE << >>)
  /\ sidCount' = n
  /\ overtaken' = (overtaken \/ \E asked \in CountsAsked : n < asked)
  /\ UNCHANGED fmVars

ConfigureTune ==
  /\ connected
  /\ Call(<< Do("Setup") >>)
  /\ UNCHANGED <<sidCount, fmVars, overtaken>>

FlushWrites(cycles) ==
  /\ connected
  /\ Call(<< Enqueue(Request("Write", 0, cycles)) >>)
  /\ UNCHANGED <<sidCount, fmVars, overtaken>>

\* The first write to the FM chip switches it on, behind what is buffered
FirstFmWrite(cycles) ==
  /\ connected /\ ~fmSent
  /\ Call(<< Enqueue(Request("Write", 0, cycles)), Enqueue(Plain("Fm")) >>)
  /\ fmSent' = TRUE
  /\ UNCHANGED <<sidCount, fmRefused, overtaken>>

Reset ==
  /\ connected
  /\ Call(ResetSteps)
  /\ UNCHANGED <<sidCount, fmVars, overtaken>>

WaitForRoom == Call(<< Do("Wait") >>) /\ UNCHANGED <<sidCount, fmVars, overtaken>>

Disconnect == Call(CloseSteps) /\ UNCHANGED <<sidCount, fmVars, overtaken>>

\* A session only connects what is not connected, after a link that died too
Connect ==
  /\ ~connected
  /\ Call(CloseSteps \o << Do("Handshake") >>)
  /\ UNCHANGED <<sidCount, fmVars, overtaken>>

-----------------------------------------------------------------------------
(* The steps of a call.  Dozing is the sender thread inside wait(): it has *)
(* found nothing to do and still holds the mutex.                          *)

Step(step) == todo # << >> /\ Head(todo).do = step

MutexFree == sender.at # "Dozing"

Notified == IF sender.at = "Asleep" THEN [sender EXCEPT !.at = "Idle"] ELSE sender

DoEnqueue ==
  /\ Step("Enqueue")
  /\ MutexFree
  /\ queue' = Append(queue, Head(todo).request)
  /\ inflight' = inflight + Head(todo).request.cycles
  /\ sender' = Notified
  /\ todo' = Tail(todo)
  /\ UNCHANGED <<linkVars, fmVars, sidCount, wireLimit, callVars, server>>

\* A model is one of the configs the server listed: without any it is left alone
Models == IF server.lists THEN sidCount ELSE 0

\* send_chip_setup: the count is read once, the requests go out one by one
DoSetup ==
  /\ Step("Setup")
  /\ LET setup == ChipSetup(sidCount, Models)
     IN  todo' = (IF connected THEN [i \in DOMAIN setup |-> Enqueue(setup[i])] ELSE << >>)
                   \o Tail(todo)
  /\ overtaken' = (overtaken /\ CountsAsked # {})
  /\ UNCHANGED <<queueVars, linkVars, fmVars, sidCount, wireLimit, sender, calls, server>>

\* The last step of reset: the queue that was dropped may have held the request
DoFmAgain ==
  /\ Step("FmAgain")
  /\ todo' = IF fmSent /\ ~fmRefused /\ connected THEN << Enqueue(Plain("Fm")) >> ELSE << >>
  /\ UNCHANGED <<queueVars, linkVars, fmVars, sidCount, wireLimit, sender, callVars, server>>

\* Mutant of DoDrop: all of the in-flight time taken back, not the queue's
DoDropAll ==
  /\ Step("Drop")
  /\ MutexFree
  /\ inflight' = 0
  /\ queue' = << >>
  /\ todo' = Tail(todo)
  /\ UNCHANGED <<linkVars, fmVars, sidCount, wireLimit, sender, callVars, server>>

\* Mutant of DoDrop: the queue emptied without the mutex
DoDropUnlocked ==
  /\ Step("Drop")
  /\ inflight' = Minus(inflight, CyclesOf(queue))
  /\ queue' = << >>
  /\ todo' = Tail(todo)
  /\ UNCHANGED <<linkVars, fmVars, sidCount, wireLimit, sender, callVars, server>>

DoDrop ==
  /\ Step("Drop")
  /\ MutexFree
  /\ inflight' = Minus(inflight, CyclesOf(queue))
  /\ queue' = << >>
  /\ todo' = Tail(todo)
  /\ UNCHANGED <<linkVars, fmVars, sidCount, wireLimit, sender, callVars, server>>

\* Woken every 20 ms, nobody has to notify
DoWait ==
  /\ Step("Wait")
  /\ inflight <= MaxInflight \/ ~connected \/ ~running
  /\ todo' = Tail(todo)
  /\ UNCHANGED <<queueVars, linkVars, fmVars, sidCount, wireLimit, sender, callVars, server>>

DoStop ==
  /\ Step("Stop")
  /\ running' = FALSE
  /\ todo' = Tail(todo)
  /\ UNCHANGED <<queueVars, connected, fmVars, sidCount, wireLimit, sender, callVars, server>>

DoNotify ==
  /\ Step("Notify")
  /\ sender' = Notified
  /\ todo' = Tail(todo)
  /\ UNCHANGED <<queueVars, linkVars, fmVars, sidCount, wireLimit, callVars, server>>

DoJoin ==
  /\ Step("Join")
  /\ sender.at \in {"None", "Ended"}
  /\ sender' = [sender EXCEPT !.at = "None"]
  /\ todo' = Tail(todo)
  /\ UNCHANGED <<queueVars, linkVars, fmVars, sidCount, wireLimit, callVars, server>>

DoClose ==
  /\ Step("Close")
  /\ connected' = FALSE
  /\ inflight' = 0
  /\ fmSent' = FALSE /\ fmRefused' = FALSE
  /\ server' = Unplugged
  /\ todo' = Tail(todo)
  /\ UNCHANGED <<queue, running, sidCount, wireLimit, sender, callVars>>

\* The rest of connect(): the socket, the version, the thread, the default setup
DoHandshake ==
  /\ Step("Handshake")
  /\ server' \in FreshServers
  /\ connected' = TRUE /\ running' = TRUE
  /\ sender' = [sender EXCEPT !.at = "Idle"]
  /\ todo' = << Do("Setup") >>
  /\ UNCHANGED <<queueVars, fmVars, sidCount, wireLimit, callVars>>

NoServer ==
  /\ Step("Handshake")
  /\ todo' = << >>
  /\ UNCHANGED <<queueVars, linkVars, fmVars, sidCount, wireLimit, sender, callVars, server>>

Finish ==
  \/ DoEnqueue \/ DoSetup \/ DoFmAgain \/ DoDrop \/ DoWait
  \/ DoStop \/ DoNotify \/ DoJoin \/ DoClose \/ DoHandshake \/ NoServer

-----------------------------------------------------------------------------
(* The sender thread                                                       *)

Doze ==
  /\ sender.at = "Idle"
  /\ queue = << >> /\ running
  /\ sender' = [sender EXCEPT !.at = "Dozing"]
  /\ UNCHANGED <<queueVars, linkVars, fmVars, sidCount, wireLimit, todo, callVars, server>>

FallAsleep ==
  /\ sender.at = "Dozing"
  /\ sender' = [sender EXCEPT !.at = "Asleep"]
  /\ UNCHANGED <<queueVars, linkVars, fmVars, sidCount, wireLimit, todo, callVars, server>>

Leave ==
  /\ sender.at = "Idle"
  /\ ~running \/ (queue # << >> /\ ~connected)
  /\ sender' = [sender EXCEPT !.at = "Ended"]
  /\ UNCHANGED <<queueVars, linkVars, fmVars, sidCount, wireLimit, todo, callVars, server>>

\* A chip the count fallback refused has no position and no model
Refused(request) == request.cmd \in {"Position", "Model"} /\ request.sid >= wireLimit

Take ==
  /\ sender.at = "Idle"
  /\ running /\ connected /\ queue # << >>
  /\ sender' = IF Refused(Head(queue)) THEN sender
               ELSE [at |-> "Asking", request |-> Head(queue), tried |-> Head(queue).sid,
                     ok |-> FALSE]
  /\ queue' = Tail(queue)
  /\ UNCHANGED <<inflight, linkVars, fmVars, sidCount, wireLimit, todo, callVars, server>>

\* The top of request_ok: stopping or dead, nothing is sent any more
Send ==
  /\ sender.at = "Asking" /\ running /\ connected
  /\ sender' = [sender EXCEPT !.at = "Answer"]
  /\ UNCHANGED <<queueVars, linkVars, fmVars, sidCount, wireLimit, todo, callVars, server>>

\* Mutant of Lower: the count stays what was asked for
LowerNot(limit) == sidCount

Lower(limit) == IF sidCount > limit THEN limit ELSE sidCount

\* The end of negotiate_sid_count
Negotiated(ok) ==
  /\ wireLimit' = IF ok THEN sender.tried ELSE NoLimit
  /\ sidCount' = IF ok /\ sender.tried < sender.request.sid
                 THEN Lower(sender.tried) ELSE sidCount

Settle(ok) == sender' = [sender EXCEPT !.at = "Account", !.ok = ok]

\* Not sent, or BUSY while stopping: an asked count is settled as refused,
\* unless the link is dead
GiveUp ==
  /\ sender.at \in {"Asking", "Answer"} /\ ~running
  /\ Settle(FALSE)
  /\ IF sender.request.cmd = "Count" THEN Negotiated(FALSE)
     ELSE UNCHANGED <<wireLimit, sidCount>>
  /\ UNCHANGED <<queueVars, linkVars, fmVars, todo, callVars, server>>

\* What the server does with a request it accepts
Served(s, r, tried) ==
  CASE r.cmd = "Count"    -> [s EXCEPT !.chips = tried, !.positions = {}, !.models = {},
                                       !.clocked = FALSE]
    [] r.cmd = "Position" -> [s EXCEPT !.positions = @ \cup {r.sid}]
    [] r.cmd = "Model"    -> [s EXCEPT !.models = @ \cup {r.sid}]
    [] r.cmd = "Clock"    -> [s EXCEPT !.clocked = TRUE]
    [] r.cmd = "Fm"       -> [s EXCEPT !.fm = TRUE]
    [] r.cmd \in {"Write", "Flush", "Reset"} -> s

Accepts(s, r, tried) ==
  CASE r.cmd = "Count" -> tried <= s.cap
    [] r.cmd = "Fm"    -> s.takesFm
    [] r.cmd \in {"Position", "Model"} -> r.sid < s.chips
    [] r.cmd \in {"Clock", "Write", "Flush", "Reset"} -> TRUE

Accept ==
  /\ sender.at = "Answer"
  /\ Accepts(server, sender.request, sender.tried)
  /\ server' = Served(server, sender.request, sender.tried)
  /\ Settle(TRUE)
  /\ IF sender.request.cmd = "Count" THEN Negotiated(TRUE)
     ELSE UNCHANGED <<wireLimit, sidCount>>
  /\ UNCHANGED <<queueVars, linkVars, fmVars, todo, callVars>>

LowerSteps == {step \in Fallback : step < sender.tried}
NextStep == CHOOSE step \in LowerSteps : \A other \in LowerSteps : other <= step

\* An ERROR: the next lower count, and no more than that for another request
StepDown ==
  /\ sender.at = "Answer"
  /\ ~Accepts(server, sender.request, sender.tried)
  /\ sender.request.cmd = "Count" /\ running /\ LowerSteps # {}
  /\ sender' = [sender EXCEPT !.at = "Asking", !.tried = NextStep]
  /\ UNCHANGED <<queueVars, linkVars, fmVars, sidCount, wireLimit, todo, callVars, server>>

Refuse ==
  /\ sender.at = "Answer"
  /\ ~Accepts(server, sender.request, sender.tried)
  /\ sender.request.cmd = "Count" => ~running \/ LowerSteps = {}
  /\ Settle(FALSE)
  /\ IF sender.request.cmd = "Count" THEN Negotiated(FALSE)
     ELSE UNCHANGED <<wireLimit, sidCount>>
  /\ UNCHANGED <<queueVars, linkVars, fmVars, todo, callVars, server>>

\* fail(): closed, no answer in time, BUSY for too long
LinkDies ==
  /\ sender.at = "Answer"
  /\ connected' = FALSE
  /\ inflight' = 0
  /\ Settle(FALSE)
  /\ wireLimit' = IF sender.request.cmd = "Count" /\ sender.tried < sender.request.sid
                  THEN NoLimit ELSE wireLimit
  /\ UNCHANGED <<queue, running, fmVars, sidCount, todo, callVars, server>>

\* The rest of the loop of sender_loop
Account ==
  /\ sender.at = "Account"
  /\ inflight' = Minus(inflight, sender.request.cycles)
  /\ fmRefused' = (fmRefused \/ (~sender.ok /\ connected /\ sender.request.cmd = "Fm"))
  /\ sender' = [sender EXCEPT !.at = IF ~sender.ok /\ ~connected THEN "Ended" ELSE "Idle"]
  /\ UNCHANGED <<queue, linkVars, fmSent, sidCount, wireLimit, todo, callVars, server>>

Sender ==
  \/ Doze \/ FallAsleep \/ Leave \/ Take \/ Send \/ GiveUp
  \/ Accept \/ StepDown \/ Refuse \/ LinkDies \/ Account

-----------------------------------------------------------------------------
Next ==
  \/ \E n \in Counts : SetSidCount(n)
  \/ \E cycles \in PacketCycles : FlushWrites(cycles) \/ FirstFmWrite(cycles)
  \/ ConfigureTune \/ Reset
  \/ WaitForRoom \/ Connect \/ Disconnect
  \/ Finish
  \/ Sender

Spec == Init /\ [][Next]_vars

\* Both threads are scheduled, and every request is answered in bounded time
Fairness == WF_vars(Finish) /\ WF_vars(Sender)

FairSpec == Spec /\ Fairness

-----------------------------------------------------------------------------
(* What the two threads owe each other and the server                      *)

SenderPlaces ==
  {"None", "Idle", "Dozing", "Asleep", "Asking", "Answer", "Account", "Ended"}

Steps == {"Enqueue", "Setup", "FmAgain", "Drop", "Wait", "Stop", "Notify", "Join",
          "Close", "Handshake"}

IsRequest(r) == r.cmd \in Commands /\ r.sid \in Nat /\ r.cycles \in Nat

\* Every part of the state has its type; a chip is only set up behind a count
TypeOK ==
  /\ \A i \in DOMAIN queue : IsRequest(queue[i])
  /\ inflight \in Nat
  /\ {connected, running, fmSent, fmRefused, sender.ok} \subseteq BOOLEAN
  /\ sidCount \in Nat \ {0} /\ wireLimit \in Nat \ {0}
  /\ sender.at \in SenderPlaces /\ IsRequest(sender.request) /\ sender.tried \in Nat
  /\ \A i \in DOMAIN todo : todo[i].do \in Steps /\ IsRequest(todo[i].request)
  /\ server.positions \cup server.models \subseteq 0 .. server.chips - 1

\* A request the sender thread has taken and not accounted for
Underway == sender.at \in {"Asking", "Answer", "Account"}

\* The tune time that wait_for_room() looks at is exactly what is queued and
\* what is being sent, through drops, resets, refusals and new connections
InflightExact ==
  connected =>
    inflight = CyclesOf(queue) + (IF Underway THEN sender.request.cycles ELSE 0)

\* Every chip of the server has a position, a model if it lists any, and the clock
Ready(s) ==
  /\ s.chips > 0 /\ s.clocked
  /\ s.positions = 0 .. s.chips - 1
  /\ s.lists => s.models = 0 .. s.chips - 1

\* No TRY_RESET and no write meets a chip that is missing: whatever a reset
\* dropped, and whatever count the server settled on
SetupBeforeUse ==
  sender.at = "Answer" /\ sender.request.cmd \in {"Reset", "Write"} => Ready(server)

\* Connected, nothing queued and nobody doing anything
AtRest ==
  /\ connected /\ running /\ queue = << >> /\ todo = << >>
  /\ sender.at \in {"Idle", "Dozing", "Asleep"}

\* FM that was switched on is on, also after resets that dropped the request
FmStaysOn == AtRest /\ fmSent /\ server.takesFm => server.fm

\* "sid_count() drops to what was accepted" (sid_netdevice.h:88), whatever room the
\* server has, with one exception: a count that overtook the negotiation of a larger
\* one is lowered with it, and the server has room for it between two of the steps
CountIsAccepted ==
  AtRest => \/ sidCount = server.chips
            \/ /\ overtaken
               /\ sidCount \in Fallback /\ sidCount < server.chips
               /\ server.chips \notin Fallback

\* The same without the exception, as the header has it
CountDropsToAccepted == AtRest => sidCount = server.chips

\* wait_for_room() and disconnect() return: the sender thread makes room or the
\* link dies, and it hears of disconnect() wherever it is
CallsReturn ==
  /\ Step("Wait") ~> ~Step("Wait")
  /\ Step("Join") ~> ~Step("Join")
=============================================================================
