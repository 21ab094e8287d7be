------------------------------- MODULE NetStream -------------------------------
(***************************************************************************)
(* How emulated time becomes wire time: the SID front end measures the gap *)
(* before every access (sid/mos6581_8580.cpp), the network backend packs   *)
(* gaps and writes into packets (sid/sid_netdevice.cpp), in one stream of  *)
(* byte registers (TRY_WRITE) and one of word registers (TRY_WRITE_EX).    *)
(* All of it is the emulation thread; what becomes of a packet once it is  *)
(* queued is the subject of NetSender.  The server's chips are not told    *)
(* apart, only the three kinds of register that take different paths.      *)
(***************************************************************************)
EXTENDS Integers, Sequences

CONSTANTS Servers,      \* what may be at the other end: [hardware, v5]
          Accesses,     \* registers the tune writes: Low, High, Fm, Absent
          MaxDelay,     \* 0xffff, the longest delay of an entry
          FrameCycles,  \* cycles of a frame
          Big,          \* kBigDelayHardware, kBigDelay
          Threshold,    \* kFlushCyclesThreshold, kSoftFlushCyclesThreshold
          MaxFrames,    \* kMaxFramesBetweenFlushes, kSoftMaxFramesBetweenFlushes
          MaxEntries,   \* kMaxQuadsPerPacket, kMaxExEntriesPerPacket
          MaxClock,     \* cycles of a tune
          MaxAccesses   \* writes of a tune

\* A frame's writes never sit in a buffer for as long as one delay can say, and a
\* pause takes no more than one
ASSUME NetStreamAssumption ==
  /\ Servers \subseteq [hardware : BOOLEAN, v5 : BOOLEAN]
  /\ Accesses \subseteq {"Low", "High", "Fm", "Absent"}
  /\ {MaxDelay, FrameCycles, MaxEntries} \subseteq Nat \ {0}
  /\ {Big, Threshold, MaxFrames} \subseteq [BOOLEAN -> Nat \ {0}]
  /\ \A hardware \in BOOLEAN : MaxFrames[hardware] * FrameCycles < MaxDelay
  /\ MaxDelay >= 4
  /\ {MaxClock, MaxAccesses} \subseteq Nat

VARIABLES server,    \* hardware_, version_ >= 5
          clock,     \* bus cycles since the tune was reset
          raster,    \* cycles of the frame so far
          stream,    \* the front end's and the backend's buffers
          wireTime,  \* time on the wire before the packets of the last step
          accesses   \* writes so far

vars == <<server, clock, raster, stream, wireTime, accesses>>

-----------------------------------------------------------------------------
(* Buffers.  An entry also keeps the cycle it belongs to, counted with the *)
(* cycles the program's own writes have cost (spent).                      *)

Empty ==
  [last |-> 0, spent |-> 0, extra |-> 0, quads |-> << >>, ex |-> << >>, buffered |-> 0, frames |-> 0,
   fmSent |-> FALSE, sent |-> << >>]

Entry(reg, delay, at) == [reg |-> reg, delay |-> delay, at |-> at]

Packet(entries, cycles) == [entries |-> entries, cycles |-> cycles]

Flushed(s, entries) ==
  [s EXCEPT !.sent = Append(@, Packet(entries, s.buffered)), !.buffered = 0, !.frames = 0]

DoFlush(s) == IF s.quads = << >> THEN s ELSE [Flushed(s, s.quads) EXCEPT !.quads = << >>]

DoFlushEx(s) == IF s.ex = << >> THEN s ELSE [Flushed(s, s.ex) EXCEPT !.ex = << >>]

FlushOf(s, forEx) == IF forEx THEN DoFlushEx(s) ELSE DoFlush(s)

Push(s, entry, forEx) ==
  LET grown == [s EXCEPT !.buffered = @ + entry.delay]
  IN  IF forEx THEN [grown EXCEPT !.ex = Append(@, entry)]
      ELSE [grown EXCEPT !.quads = Append(@, entry)]

\* Mutant of OtherFirst: the word stream overtakes the byte stream
OtherFirstNever(s, forEx) == s

\* One of the streams is sent before the other is filled
OtherFirst(s, forEx) == FlushOf(s, ~forEx)

\* append_delay_quads.  extra_cycles_ and a gap are at most two delays, so its
\* loop runs once at most.
AppendDelay(s, total, forEx, at) ==
  LET first  == OtherFirst(s, forEx)
      dummy  == DoFlush(Push(first, Entry("Dummy", MaxDelay, at), FALSE))
      longer == total > MaxDelay
  IN  [stream |-> IF longer THEN dummy ELSE first,
       rest   |-> IF longer THEN total - MaxDelay ELSE total]

\* Mutant of FlushIfBig: a long delay stays in the middle of its packet
FlushIfBigNever(s, delay, forEx) == s

FlushIfBig(s, delay, forEx) ==
  IF delay < Big[server.hardware] THEN s ELSE FlushOf(s, forEx)

\* The packet is full or holds enough tune time
FlushIfFull(s, forEx) ==
  IF \/ Len(IF forEx THEN s.ex ELSE s.quads) >= MaxEntries
     \/ s.buffered >= Threshold[server.hardware]
  THEN FlushOf(s, forEx)
  ELSE s

\* Mutant of PushWrite: the idle time is sent with every write
PushWriteKeepsExtra(s, reg, cycles, forEx, at) ==
  LET gap    == AppendDelay(s, s.extra + cycles, forEx, at)
      pushed == Push(gap.stream, Entry(reg, gap.rest, at), forEx)
  IN  FlushIfFull(FlushIfBig(pushed, gap.rest, forEx), forEx)

\* The entry of one write behind the gap before it
PushWrite(s, reg, cycles, forEx, at) ==
  LET gap    == AppendDelay(s, s.extra + cycles, forEx, at)
      pushed == Push([gap.stream EXCEPT !.extra = 0], Entry(reg, gap.rest, at), forEx)
  IN  FlushIfFull(FlushIfBig(pushed, gap.rest, forEx), forEx)

-----------------------------------------------------------------------------
(* The backend's calls                                                     *)

\* Hardware with FM in use: all writes in the stream of word registers
ExStream(s) == s.fmSent /\ server.hardware

\* send_pending
SendPending(s) == DoFlushEx(DoFlush(s))

HandleFm(s, cycles, at) ==
  LET first == IF s.fmSent THEN s ELSE [SendPending(s) EXCEPT !.fmSent = TRUE]
  IN  PushWrite(first, "Fm", cycles, TRUE, at)

Write(s, reg, cycles, at) ==
  CASE reg = "Absent"                      -> s
    [] reg \in {"High", "Fm"} /\ ~server.v5 -> s
    [] reg = "Fm" /\ server.v5             -> HandleFm(s, cycles, at)
    [] reg = "High" /\ server.v5           -> PushWrite(s, reg, cycles, TRUE, at)
    [] reg = "Low"                         -> PushWrite(s, reg, cycles, ExStream(s), at)

\* Mutant of Wait: idle time collected, never sent
WaitKeepsAll(s, cycles, at) == [s EXCEPT !.extra = @ + cycles]

\* A software server is sent what is left of idle time too
Wait(s, cycles, at) ==
  LET gap  == AppendDelay(s, s.extra + cycles, ExStream(s), at)
      idle == FlushIfBig(Push(gap.stream, Entry("Dummy", gap.rest, at), FALSE), gap.rest, FALSE)
  IN  FlushIfFull(IF ~server.hardware /\ gap.rest > 0 THEN [idle EXCEPT !.extra = 0]
                  ELSE [gap.stream EXCEPT !.extra = gap.rest],
                  FALSE)

\* Mutant of Flush: one frame too many
FlushLate(s) ==
  LET older == [s EXCEPT !.frames = @ + 1]
  IN  CASE s.quads = << >> /\ s.ex = << >>           -> s
        [] s.quads \o s.ex # << >> /\ older.frames > MaxFrames[server.hardware]
                                                     -> DoFlushEx(DoFlush(older))
        [] OTHER                                     -> older

\* The end of a frame
Flush(s) ==
  LET older == [s EXCEPT !.frames = @ + 1]
  IN  CASE s.quads = << >> /\ s.ex = << >>           -> s
        [] s.quads \o s.ex # << >> /\ older.frames >= MaxFrames[server.hardware]
                                                     -> DoFlushEx(DoFlush(older))
        [] OTHER                                     -> older

-----------------------------------------------------------------------------
(* The front end                                                           *)

\* access_overhead: on a bus the access itself takes a cycle
Overhead == IF server.hardware THEN 1 ELSE 0

Clamped(delta) == IF delta > Overhead THEN delta - Overhead ELSE 0

\* Whole delays in a gap: what is left is at most one delay, and only 0 for 0
Waits(delta) == IF delta = 0 THEN 0 ELSE (delta - 1) \div MaxDelay

\* The waits of cycles_since_last_event, which only it and the frame make
Waited(s, delta, at) ==
  LET after[i \in 0 .. Waits(delta)] ==
        IF i = 0 THEN s ELSE Wait(after[i - 1], MaxDelay, at)
  IN  after[Waits(delta)]

Access(s, reg, at) ==
  LET delta == at - s.last
  IN  Write([Waited(s, delta, at + s.spent) EXCEPT !.last = at], reg,
            Clamped(delta - Waits(delta) * MaxDelay), at + s.spent)

\* vic_frame_ended: a software server is sent the time that passed (render_idle)
FrameEnded(s, at) ==
  LET delta  == at - s.last
      waited == Waited(s, delta, at + s.spent)
      idle   == IF delta = 0 THEN waited
                ELSE Wait(waited, delta - Waits(delta) * MaxDelay, at + s.spent)
  IN  Flush(IF server.hardware THEN s ELSE [idle EXCEPT !.last = at])

-----------------------------------------------------------------------------
Init ==
  /\ server \in Servers
  /\ clock = 0
  /\ raster \in {0, FrameCycles - 1}
  /\ stream = Empty
  /\ wireTime = 0
  /\ accesses = 0

\* The sums of the first so many numbers
Sums(numbers) ==
  LET upTo[n \in 0 .. Len(numbers)] == IF n = 0 THEN 0 ELSE upTo[n - 1] + numbers[n]
  IN  upTo

Cost(entry) == entry.delay + (IF entry.reg = "Dummy" THEN 0 ELSE Overhead)

\* The time after each entry of a packet, and after each packet
Times(entries) == Sums([k \in DOMAIN entries |-> Cost(entries[k])])
PacketTimes(sent) ==
  Sums([i \in DOMAIN sent |-> Times(sent[i].entries)[Len(sent[i].entries)]])

\* What the last step sent is on the wire
OnWire == wireTime' = wireTime + PacketTimes(stream.sent)[Len(stream.sent)]

Framed ==
  LET s == [stream EXCEPT !.sent = << >>]
  IN  IF raster + 1 = FrameCycles THEN FrameEnded(s, clock + 1) ELSE s

Tick ==
  /\ clock < MaxClock
  /\ clock' = clock + 1
  /\ raster' = (raster + 1) % FrameCycles
  /\ OnWire
  /\ UNCHANGED server

\* A cycle in which the CPU writes no SID register
Cycle == Tick /\ stream' = Framed /\ UNCHANGED accesses

\* A cycle in which it writes one; the VIC's frame ends before
WriteCycle(reg) ==
  /\ accesses < MaxAccesses
  /\ Tick
  /\ stream' = Access(Framed, reg, clock + 1)
  /\ accesses' = accesses + 1

\* The player pauses or goes on: it writes the volume of a chip itself, behind
\* the front end's back, and sends it at once
Volume ==
  /\ accesses < MaxAccesses
  /\ LET spent == stream.spent + 4 + Overhead
         s     == [stream EXCEPT !.sent = << >>, !.spent = spent]
     IN  stream' = SendPending(Write(s, "Low", 4, stream.last + spent))
  /\ OnWire
  /\ accesses' = accesses + 1
  /\ UNCHANGED <<server, clock, raster>>

\* A new tune: the front end and the backend forget the old one, FM stays on
Reset ==
  /\ clock > 0
  /\ clock' = 0
  /\ stream' = [Empty EXCEPT !.fmSent = stream.fmSent]
  /\ wireTime' = 0
  /\ UNCHANGED <<server, raster, accesses>>

Next ==
  \/ Cycle
  \/ \E reg \in Accesses : WriteCycle(reg)
  \/ Volume
  \/ Reset

Spec == Init /\ [][Next]_vars

-----------------------------------------------------------------------------
Pending == stream.quads \o stream.ex

Total(entries) == Sums([k \in DOMAIN entries |-> entries[k].delay])[Len(entries)]

\* The counters keep their range: what is carried forward fits one delay, what
\* is buffered is below its limits and its time is counted.
TypeOK ==
  /\ stream.last \in 0 .. clock /\ stream.extra \in 0 .. MaxDelay
  /\ stream.buffered = Total(Pending)
  /\ Len(Pending) < MaxEntries /\ stream.buffered < Threshold[server.hardware]
  /\ stream.frames \in 0 .. MaxFrames[server.hardware] - 1
  /\ wireTime \in Nat /\ raster \in 0 .. FrameCycles - 1

\* "pending_quads_ and pending_ex_ are never both non-empty" (sid_netdevice.h)
OneStream == stream.quads = << >> \/ stream.ex = << >>

\* Played one after the other from a time on, no write misses its cycle
Punctual(start, entries) ==
  \A k \in DOMAIN entries :
    entries[k].reg # "Dummy" => start + Times(entries)[k] = entries[k].at

\* Played back delay by delay, every write comes at the cycle the tune made it:
\* no gap lost, none counted twice, and no write ahead of an earlier one,
\* whichever stream carries it.
OnTime ==
  LET begin(i) == wireTime + PacketTimes(stream.sent)[i - 1]
  IN  /\ \A i \in DOMAIN stream.sent : Punctual(begin(i), stream.sent[i].entries)
      /\ Punctual(begin(Len(stream.sent) + 1), Pending)

\* A request fits its limits, is accounted with the time it holds and has a long
\* delay only at its end (comment of flush_if_big_delay).
PacketIsWhole ==
  \A i \in DOMAIN stream.sent :
    LET packet == stream.sent[i] IN
    /\ packet.cycles = Total(packet.entries)
    /\ Len(packet.entries) \in 1 .. MaxEntries
    /\ \A k \in 1 .. Len(packet.entries) - 1 : packet.entries[k].delay < Big[server.hardware]

\* Nothing that was written is held back for longer than the frames say
NothingStale ==
  Pending # << >> =>
    clock + stream.spent - Head(Pending).at < MaxFrames[server.hardware] * FrameCycles
=============================================================================
