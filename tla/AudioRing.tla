------------------------------ MODULE AudioRing ------------------------------
(* The ring between emulation and the audio device (host/audio_out.cpp) and  *)
(* the sink that feeds it (AudioSessionSink::frame_done). The engine pushes, *)
(* the device's thread pops in its callback; each loads the two indices,     *)
(* copies sample by sample, and stores its own index. close() empties the    *)
(* ring and leaves the device to a detached thread.                          *)
EXTENDS Integers, Sequences

CONSTANTS
    Size,          \* ring_.size(), one more than it holds
    Frame,         \* samples of an emulated frame, at most
    Fills,         \* samples the device may ask for
    Numbers,       \* samples are numbered modulo this
    StallTicks     \* kStallMs, in ticks of the clock

ASSUME RingAssumption ==
    /\ Size \in Nat \ {0, 1}
    /\ {Frame, StallTicks} \subseteq Nat \ {0}
    /\ Fills \subseteq Nat \ {0}
    /\ Numbers \in Nat /\ Numbers > Size

VARIABLES
    ring, head, tail,      \* ring_, head_, tail_
    open,                  \* open_
    quiet,                 \* ticks since last_fill_us_
    push,                  \* the engine's thread in frame_done() and push()
    pop,                   \* the device's thread in fill() and pop()
    sent,                  \* number of the next sample accepted
    heard,                 \* what the last callback put out before the silence
    stopping,              \* the engine has been asked to stop
    gone                   \* ma_device_uninit() has returned

vars == <<ring, head, tail, open, quiet, push, pop, sent, heard, stopping, gone>>

Sample == 0..Numbers - 1
Freed == Numbers       \* read from memory that is gone
Idle == [at |-> "idle"]

\* left: samples of the frame; take: of this push; next: the local index
Pushing == [at: {"push", "full"}, left: 1..Frame]
           \cup [at: {"copy"}, left: 1..Frame, take: 1..Frame, done: 0..Frame, next: 0..Size - 1]
Popping == [at: {"copy"}, give: 0..Size - 1, next: 0..Size - 1, out: Seq(Sample \cup {Freed})]

TypeOK ==
    /\ ring \in [0..Size - 1 -> Sample] \cup {<<>>}
    /\ {head, tail} \subseteq 0..Size - 1
    /\ {open, stopping, gone} \subseteq BOOLEAN
    /\ quiet \in 0..StallTicks
    /\ push \in Pushing \cup {Idle}
    /\ pop \in Popping \cup {Idle}
    /\ sent \in Sample
    /\ heard \in Seq(Sample \cup {Freed})

----------------------------------------------------------------------------

Least(a, b) == IF a < b THEN a ELSE b

SuccNoWrap(i) == i + 1
Succ(i) == (i + 1) % Size

\* space() and queued()
RoomNoSpare == Size - ((head + Size - tail) % Size)
Room == (tail + Size - head - 1) % Size
Queued == (head + Size - tail) % Size

\* stalled()
Stalled == ~open \/ quiet = StallTicks

\* open(), the device started
Init ==
    /\ ring = [i \in 0..Size - 1 |-> 0]
    /\ head = 0 /\ tail = 0
    /\ open = TRUE /\ gone = FALSE
    /\ quiet = 0
    /\ push = Idle /\ pop = Idle
    /\ sent = 0 /\ heard = <<>>
    /\ stopping = FALSE

----------------------------------------------------------------------------
(* The engine.                                                              *)

engineOnly == <<tail, quiet, pop, heard, open, stopping, gone>>

FrameDone ==
    /\ push = Idle /\ open
    /\ \E n \in 1..Frame : push' = [at |-> "push", left |-> n]
    /\ UNCHANGED <<ring, head, sent, engineOnly>>

\* The room is taken once, before the copy.
PushBegins ==
    /\ push.at = "push"
    /\ push' = IF Room = 0 THEN [push EXCEPT !.at = "full"]
               ELSE [at |-> "copy", left |-> push.left, take |-> Least(push.left, Room),
                     done |-> 0, next |-> head]
    /\ UNCHANGED <<ring, head, sent, engineOnly>>

FullAgainPatient ==
    /\ push.at = "full"
    /\ push' = IF stopping THEN Idle ELSE [push EXCEPT !.at = "push"]
    /\ UNCHANGED <<ring, head, sent, engineOnly>>

\* The queue is full: the device is the clock, unless it has stalled.
FullAgain ==
    /\ push.at = "full"
    /\ push' = IF stopping \/ Stalled THEN Idle ELSE [push EXCEPT !.at = "push"]
    /\ UNCHANGED <<ring, head, sent, engineOnly>>

PushCopies ==
    /\ push.at = "copy" /\ push.done < push.take
    /\ ring' = [ring EXCEPT ![push.next] = (sent + push.done) % Numbers]
    /\ push' = [push EXCEPT !.next = Succ(@), !.done = @ + 1]
    /\ UNCHANGED <<head, sent, engineOnly>>

PushPublishes ==
    /\ push.at = "copy" /\ push.done = push.take
    /\ head' = push.next
    /\ sent' = (sent + push.take) % Numbers
    /\ push' = IF push.left = push.take THEN Idle
               ELSE [at |-> "push", left |-> push.left - push.take]
    /\ UNCHANGED <<ring, engineOnly>>

AskToStop ==
    /\ ~stopping /\ stopping' = TRUE
    /\ UNCHANGED <<ring, head, sent, push, tail, quiet, pop, heard, open, gone>>

\* close(), from the destructor once the engine has returned
Close ==
    /\ push = Idle /\ open
    /\ open' = FALSE
    /\ ring' = <<>> /\ head' = 0 /\ tail' = 0
    /\ UNCHANGED <<quiet, push, pop, sent, heard, stopping, gone>>

----------------------------------------------------------------------------
(* The device.                                                              *)

deviceOnly == <<ring, head, sent, push, open, stopping, gone>>

\* fill() up to pop()'s loop. An empty ring gives nothing.
Fill ==
    /\ pop = Idle /\ ~gone
    /\ quiet' = 0
    /\ \E n \in Fills :
         pop' = [at |-> "copy", next |-> tail, out |-> <<>>,
                 give |-> IF ring = <<>> THEN 0 ELSE Least(n, Queued)]
    /\ UNCHANGED <<tail, heard, deviceOnly>>

\* The memory of the ring is gone after close().
PopCopies ==
    /\ pop.at = "copy" /\ Len(pop.out) < pop.give
    /\ pop' = [pop EXCEPT !.out = Append(@, IF ring = <<>> THEN Freed ELSE ring[pop.next]),
                          !.next = Succ(@)]
    /\ UNCHANGED <<tail, quiet, heard, deviceOnly>>

\* tail_ is stored, fill() pads with silence.
PopPublishes ==
    /\ pop.at = "copy" /\ Len(pop.out) = pop.give
    /\ tail' = pop.next
    /\ heard' = pop.out
    /\ pop' = Idle
    /\ UNCHANGED <<quiet, deviceOnly>>

\* ma_device_uninit() waits for a running callback; it may never return.
Uninit ==
    /\ ~open /\ ~gone /\ pop = Idle
    /\ gone' = TRUE
    /\ UNCHANGED <<ring, head, sent, push, open, stopping, tail, quiet, pop, heard>>

ClockTick ==
    /\ quiet < StallTicks
    /\ quiet' = quiet + 1
    /\ UNCHANGED <<ring, head, tail, open, push, pop, sent, heard, stopping, gone>>

Engine == PushBegins \/ FullAgain \/ PushCopies \/ PushPublishes

Next ==
    \/ FrameDone \/ PushBegins \/ FullAgain \/ PushCopies \/ PushPublishes
    \/ AskToStop \/ Close
    \/ Fill \/ PopCopies \/ PopPublishes \/ Uninit \/ ClockTick

\* The engine runs, time passes and a callback ends; nothing makes the device call.
Fairness == WF_vars(Engine) /\ WF_vars(PopCopies \/ PopPublishes) /\ WF_vars(ClockTick)

Spec == Init /\ [][Next]_vars /\ Fairness

----------------------------------------------------------------------------
(* Properties.                                                              *)

Held == [i \in 1..Queued |-> ring[(tail + i - 1) % Size]]

Queue == INSTANCE SampleQueue WITH
    Capacity <- Size - 1,
    queue <- IF open THEN Held ELSE <<>>,
    sent <- IF open THEN sent ELSE 0,
    heard <- IF open THEN heard ELSE <<>>

\* "Single producer, single consumer" (audio_out.h:132): with an index each and no
\* lock, the device hears every accepted sample once and in order, none before it
\* was written, and the ring never takes more than it holds.
IsAQueue == Queue!Spec

\* frame_done() returns whatever the device does: a ring that stays full is
\* given up when the device has stalled or the engine is stopping.
FrameDoneReturns == push # Idle ~> push = Idle

\* "tail by the audio thread" (audio_out.h:132): while a callback copies, the ring it
\* copies from is not taken away.
RingOutlivesCallback == pop # Idle /\ pop.give > 0 => ring # <<>>
=============================================================================
