---------------------------- MODULE SessionProofs ----------------------------
(* A session, for every file, song length, set of chips and set of commands: *)
(* a command never survives its playback, the machine writes to the board    *)
(* exactly while no seek runs, and what plays is heard as it was written.    *)
EXTENDS Session, WellFoundedInduction, TLAPS

----------------------------------------------------------------------------
(* The queue of commands.                                                   *)

Below == {p \in Nat \X Nat : p[1] < p[2]}

(* What holds at 0 and passes from each number to the next holds up to n.    *)
LEMMA IntervalInduction ==
  ASSUME NEW n \in Nat, NEW S, 0 \in S,
         \A k \in 0..n - 1 : k \in S => k + 1 \in S
  PROVE  \A k \in 0..n : k \in S
<1> DEFINE Bad == {k \in 0..n : k \notin S}
<1>1. IsWellFoundedOn(Below, Nat)
  BY NatLessThanWellFounded DEF OpToRel, Below
<1> SUFFICES ASSUME Bad # {} PROVE FALSE
  OBVIOUS
<1>2. PICK k \in Bad : \A j \in Bad : ~(<<j, k>> \in Below)
  <2>1. Bad \subseteq Nat
    BY SMT
  <2> HIDE DEF Bad
  <2> QED BY <1>1, <2>1, WFMin
<1>3. k # 0 /\ k \in 0..n /\ k \notin S
  OBVIOUS
<1>4. k - 1 \in 0..n - 1 /\ k - 1 + 1 = k /\ k - 1 < k
  BY <1>3, SMT
<1>5. k - 1 \in Bad
  <2>1. k - 1 \notin S
    BY <1>3, <1>4
  <2> QED BY <1>4, <2>1, SMT
<1>6. <<k - 1, k>> \in Below
  BY <1>3, <1>4, SMT DEF Below
<1> QED BY <1>2, <1>5, <1>6

\* What run_or_queue() queued, run up to command k: the session after each
IsRun(f, x, cmds, k) == f = [n \in 0..k |-> IF n = 0 THEN x ELSE Run(f[n - 1], cmds[n])]

(* RunAll runs the commands one by one: the function it is defined by exists.*)
LEMMA RunAllIs ==
  ASSUME NEW x, NEW cmds \in Seq(Asked)
  PROVE  \E f : IsRun(f, x, cmds, Len(cmds)) /\ RunAll(x, cmds) = f[Len(cmds)]
<1> DEFINE len == Len(cmds)
           S == {k \in 0..len : \E f : IsRun(f, x, cmds, k)}
<1>0. len \in Nat
  OBVIOUS
<1>1. 0 \in S
  <2>1. IsRun([n \in 0..0 |-> x], x, cmds, 0)
    BY SMT DEF IsRun
  <2> QED BY <1>0, <2>1
<1>2. ASSUME NEW k \in 0..len - 1, k \in S
      PROVE  k + 1 \in S
  <2>1. PICK f : IsRun(f, x, cmds, k)
    BY <1>2
  <2> DEFINE g == [n \in 0..k + 1 |-> IF n = k + 1 THEN Run(f[k], cmds[k + 1]) ELSE f[n]]
  <2>2. \A n \in 0..k : f[n] = IF n = 0 THEN x ELSE Run(f[n - 1], cmds[n])
    <3> HIDE DEF g
    <3> QED BY <2>1 DEF IsRun
  <2>3. \A n \in 0..k + 1 : g[n] = IF n = 0 THEN x ELSE Run(g[n - 1], cmds[n])
    <3> SUFFICES ASSUME NEW n \in 0..k + 1
                 PROVE  g[n] = IF n = 0 THEN x ELSE Run(g[n - 1], cmds[n])
      OBVIOUS
    <3>1. CASE n = k + 1
      <4>1. g[n] = Run(f[k], cmds[k + 1]) /\ n # 0 /\ n - 1 = k /\ g[k] = f[k]
        BY <1>0, <3>1, SMT
      <4> QED BY <3>1, <4>1
    <3>2. CASE n # k + 1
      <4>1. n \in 0..k /\ g[n] = f[n]
        BY <1>0, <3>2, SMT
      <4>2. n # 0 => n - 1 \in 0..k + 1 /\ n - 1 # k + 1
        BY <1>0, <4>1, SMT
      <4>3. n # 0 => g[n - 1] = f[n - 1]
        BY <4>2
      <4> QED BY <2>2, <4>1, <4>3
    <3> QED BY <3>1, <3>2
  <2>4. IsRun(g, x, cmds, k + 1)
    <3>1. g = [n \in 0..k + 1 |-> g[n]]
      OBVIOUS
    <3> HIDE DEF g
    <3> QED BY <2>3, <3>1 DEF IsRun
  <2>5. k + 1 \in 0..len
    BY <1>0, SMT
  <2> HIDE DEF g
  <2> QED BY <2>4, <2>5
<1>3. \E f : IsRun(f, x, cmds, len)
  <2>1. \A k \in 0..len : k \in S
    <3> HIDE DEF S, len
    <3> QED BY <1>0, <1>1, <1>2, IntervalInduction
  <2>2. len \in 0..len
    BY <1>0, SMT
  <2> QED BY <2>1, <2>2
<1> DEFINE F == CHOOSE f : IsRun(f, x, cmds, len)
<1>4. IsRun(F, x, cmds, len)
  BY <1>3
<1>5. RunAll(x, cmds) = F[len]
  BY DEF RunAll, IsRun
<1> QED BY <1>4, <1>5

(* What every command keeps, the queue of them keeps.                       *)
LEMMA RunAllKeeps ==
  ASSUME NEW cmds \in Seq(Asked), NEW Kept, NEW x \in Kept,
         \A y \in Kept, cmd \in Asked : Run(y, cmd) \in Kept
  PROVE  RunAll(x, cmds) \in Kept
<1>1. PICK f : IsRun(f, x, cmds, Len(cmds)) /\ RunAll(x, cmds) = f[Len(cmds)]
  BY RunAllIs
<1> DEFINE S == {k \in 0..Len(cmds) : f[k] \in Kept}
<1>2. Len(cmds) \in Nat /\ \A k \in 1..Len(cmds) : cmds[k] \in Asked
  OBVIOUS
<1>3. \A n \in 0..Len(cmds) : f[n] = IF n = 0 THEN x ELSE Run(f[n - 1], cmds[n])
  BY <1>1 DEF IsRun
<1>4. 0 \in S
  BY <1>2, <1>3
<1>5. ASSUME NEW k \in 0..Len(cmds) - 1, k \in S
      PROVE  k + 1 \in S
  <2>1. k + 1 \in 1..Len(cmds) /\ k + 1 \in 0..Len(cmds) /\ k + 1 # 0 /\ k + 1 - 1 = k
    BY <1>2, SMT
  <2>2. f[k + 1] = Run(f[k], cmds[k + 1])
    BY <1>3, <2>1
  <2> QED BY <1>2, <1>5, <2>1, <2>2
<1>6. \A k \in 0..Len(cmds) : k \in S
  <2> HIDE DEF S
  <2> QED BY <1>2, <1>4, <1>5, IntervalInduction
<1>7. Len(cmds) \in 0..Len(cmds)
  BY <1>2, SMT
<1> QED BY <1>1, <1>6, <1>7

----------------------------------------------------------------------------
(* Every operation on the session keeps its type.                           *)

LEMMA Numbers == 0 \in 0..MaxPos /\ FirstSong \in 1..Songs /\ MaxPos \in Nat /\ Songs \in Nat
BY SessionAssumption, SMT

LEMMA QuietIs == Quiet \in [Chips -> SUBSET Regs]
BY DEF Quiet

(* SilenceSink, Restore, Attach (session_board.cpp), and the chips' reset.   *)
LEMMA SilenceSinkType == ASSUME NEW x \in State PROVE SilenceSink(x) \in State
BY QuietIs, ZenonT(30) DEF State, SilenceSink

LEMMA RestoreType == ASSUME NEW x \in State PROVE Restore(x) \in State
BY ZenonT(30) DEF State, Restore

LEMMA AttachType == ASSUME NEW x \in State PROVE Attach(x) \in State
BY QuietIs, ZenonT(30) DEF State, Attach, Opened

LEMMA ResetChipsType == ASSUME NEW x \in State PROVE ResetChips(x) \in State
BY QuietIs, ZenonT(30) DEF State, ResetChips

LEMMA ApplyMutesType == ASSUME NEW x \in State PROVE ApplyMutes(x) \in State
BY ZenonT(30) DEF State, ApplyMutes

LEMMA BackToSinkType == ASSUME NEW x \in State PROVE BackToSink(x) \in State
BY Numbers, ZenonT(30) DEF State, BackToSink

LEMMA UnpausedType == ASSUME NEW x \in State PROVE Unpaused(x) \in State
<1>1. [x EXCEPT !.paused = FALSE] \in State
  BY ZenonT(30) DEF State
<1> QED BY <1>1, RestoreType DEF Unpaused

LEMMA StartSongType ==
  ASSUME NEW x \in State, NEW n \in 1..Songs
  PROVE  StartSong(x, n) \in State
<1> DEFINE y == [ResetChips(x) EXCEPT !.song = n, !.playing = TRUE]
           z == [y EXCEPT !.pos = 0, !.ended = FALSE]
<1>1. ResetChips(x) \in State
  BY ResetChipsType
<1>2. y \in State
  <2>1. \A w \in State : [w EXCEPT !.song = n, !.playing = TRUE] \in State
    BY ZenonT(30) DEF State
  <2> QED BY <1>1, <2>1
<1>3. z \in State
  <2> HIDE DEF y
  <2> QED BY <1>2, Numbers, ZenonT(30) DEF State
<1> HIDE DEF y, z
<1>4. ApplyMutes(Unpaused(BackToSink(z))) \in State
  BY <1>3, BackToSinkType, UnpausedType, ApplyMutesType
<1> QED BY <1>4 DEF StartSong, AfterSongStart, y, z

LEMMA PauseType ==
  ASSUME NEW x \in State, NEW on \in BOOLEAN
  PROVE  Pause(x, on) \in State
<1>1. [x EXCEPT !.paused = TRUE] \in State /\ [x EXCEPT !.paused = FALSE] \in State
  BY ZenonT(30) DEF State
<1> QED BY <1>1, RestoreType, SilenceSinkType DEF Pause

LEMMA SeekType ==
  ASSUME NEW x \in State, NEW to \in 1..MaxPos
  PROVE  Seek(x, to) \in State
<1> DEFINE y == SilenceSink(x)
<1>1. y \in State /\ to \in 0..MaxPos
  BY SilenceSinkType, Numbers, SMT
<1> HIDE DEF y
<1>2. [y EXCEPT !.backend = "null", !.seekTo = to] \in State
  BY <1>1, ZenonT(30) DEF State
<1>3. [x EXCEPT !.seekTo = to] \in State
  BY <1>1, ZenonT(30) DEF State
<1> QED BY <1>2, <1>3 DEF Seek, y

(* The register front end (mos6581_8580.cpp): a write to the wire of one     *)
(* chip, a write of the tune, a mute.                                       *)
LEMMA WireType ==
  ASSUME NEW x \in State, NEW c \in Chips, NEW regs \in SUBSET Regs
  PROVE  Send(x, c, regs) \in State /\ Silence(x, c) \in State
<1>1. /\ x.wire \in [Chips -> SUBSET Regs] /\ x.mirror \in [Chips -> SUBSET Regs]
  BY DEF State
<1>2. Masked(x, c) \subseteq Regs
  BY <1>1 DEF Masked
<1> DEFINE v == [x.wire EXCEPT ![c] = (@ \ regs) \cup (Masked(x, c) \cap regs)]
           w == [x.wire EXCEPT ![c] = @ \ {"volume"}]
<1>3. v \in [Chips -> SUBSET Regs] /\ w \in [Chips -> SUBSET Regs]
  BY <1>1, <1>2
<1>4. \A u \in [Chips -> SUBSET Regs] : [x EXCEPT !.wire = u] \in State
  BY ZenonT(30) DEF State
<1>5. [x EXCEPT !.wire[c] = (@ \ regs) \cup (Masked(x, c) \cap regs)] = [x EXCEPT !.wire = v]
  OBVIOUS
<1>6. [x EXCEPT !.wire[c] = @ \ {"volume"}] = [x EXCEPT !.wire = w]
  OBVIOUS
<1> HIDE DEF v, w
<1> QED BY <1>3, <1>4, <1>5, <1>6 DEF Send, Silence

LEMMA AppliedType == ASSUME NEW x \in State PROVE Applied(x) \in State
<1> DEFINE y == [x EXCEPT !.pending = {}]
           w == [c \in Chips |-> IF c \notin x.pending THEN y.wire[c]
                                 ELSE IF c \in y.chipMute THEN Silence(y, c).wire[c]
                                 ELSE Send(y, c, Regs).wire[c]]
<1>1. y \in State
  BY ZenonT(30) DEF State
<1> HIDE DEF y
<1>2. w \in [Chips -> SUBSET Regs]
  <2>1. \A z \in State, c \in Chips : z.wire[c] \in SUBSET Regs
    BY DEF State
  <2> QED BY <1>1, <2>1, WireType
<1> HIDE DEF w
<1>3. [y EXCEPT !.wire = w] \in State
  BY <1>1, <1>2, ZenonT(30) DEF State
<1> QED BY <1>3 DEF Applied, Apply, y, w

LEMMA IoWriteType ==
  ASSUME NEW x \in State, NEW c \in Chips, NEW r \in Regs, NEW on \in BOOLEAN
  PROVE  IoWrite(x, c, r, on) \in State
<1> DEFINE y == Applied(x)
           m == [y.mirror EXCEPT ![c] = Put(@, r, on)]
           z == [y EXCEPT !.mirror = m]
<1>1. y \in State
  BY AppliedType
<1> HIDE DEF y
<1>2. m \in [Chips -> SUBSET Regs]
  <2>1. y.mirror \in [Chips -> SUBSET Regs]
    BY <1>1 DEF State
  <2>2. Put(y.mirror[c], r, on) \subseteq Regs
    BY <2>1 DEF Put
  <2> QED BY <2>1, <2>2
<1>3. Mirrored(y, c, r, on) = z
  BY DEF Mirrored
<1>4. z \in State
  <2> HIDE DEF m
  <2> QED BY <1>1, <1>2, ZenonT(30) DEF State
<1> HIDE DEF z
<1>5. Send(z, c, {r}) \in State
  BY <1>4, WireType
<1> QED BY <1>3, <1>4, <1>5 DEF IoWrite, Output, y

LEMMA MuteType ==
  ASSUME NEW x \in State, NEW c \in Chips, NEW on \in BOOLEAN
  PROVE  MuteChip(x, c, on) \in State /\ MuteVoice(x, c, on) \in State
<1>1. \A set \in SUBSET Chips : Put(set, c, on) \in SUBSET Chips
  BY DEF Put
<1>2. \A y \in State : y.chipKept \in SUBSET Chips /\ y.voiceKept \in SUBSET Chips
         /\ y.chipMute \in SUBSET Chips /\ y.voiceMute \in SUBSET Chips
  BY DEF State
<1>3. \A y \in State, set \in SUBSET Chips :
         /\ [y EXCEPT !.chipKept = set] \in State /\ [y EXCEPT !.voiceKept = set] \in State
         /\ [y EXCEPT !.voiceMute = set] \in State
         /\ [y EXCEPT !.chipMute = set, !.pending = @ \cup {c}] \in State
  BY ZenonT(30) DEF State
<1>4. \A y \in State : SetChipMute(y, c, on) \in State
  BY <1>1, <1>2, <1>3 DEF SetChipMute
<1>5. \A y \in State : SetVoiceMute(y, c, on) \in State
  <2> SUFFICES ASSUME NEW y \in State PROVE SetVoiceMute(y, c, on) \in State
    OBVIOUS
  <2>1. [y EXCEPT !.voiceMute = Put(@, c, on)] \in State
    BY <1>1, <1>2, <1>3
  <2>2. {"voice"} \in SUBSET Regs
    BY DEF Regs
  <2> QED BY <2>1, <2>2, WireType DEF SetVoiceMute
<1>6. [x EXCEPT !.chipKept = Put(@, c, on)] \in State /\ [x EXCEPT !.voiceKept = Put(@, c, on)] \in State
  BY <1>1, <1>2, <1>3
<1> QED BY <1>4, <1>5, <1>6 DEF MuteChip, MuteVoice

LEMMA RunType == ASSUME NEW x \in State, NEW cmd \in Commands PROVE Run(x, cmd) \in State
<1>1. CASE cmd.op = "pause" \/ cmd.op = "advance"
  <2>1. cmd.on \in BOOLEAN
    BY <1>1 DEF Commands
  <2>2. [x EXCEPT !.advance = cmd.on] \in State
    BY <2>1, ZenonT(30) DEF State
  <2> QED BY <1>1, <2>1, <2>2, PauseType DEF Run
<1>2. CASE cmd.op = "chip" \/ cmd.op = "voice"
  <2>1. cmd.on \in BOOLEAN /\ cmd.chip \in Chips
    BY <1>2 DEF Commands
  <2> QED BY <1>2, <2>1, MuteType DEF Run
<1>3. CASE cmd.op = "next" \/ cmd.op = "previous"
  <2>1. x.song \in 1..Songs
    BY DEF State
  <2>2. NextSong(x.song) \in 1..Songs /\ PreviousSong(x.song) \in 1..Songs
    BY <2>1, Numbers, SMT DEF NextSong, PreviousSong
  <2> QED BY <1>3, <2>2, StartSongType DEF Run
<1>4. CASE cmd.op = "select"
  <2>1. cmd.song \in 1..Songs
    BY <1>4 DEF Commands
  <2> QED BY <1>4, <2>1, StartSongType DEF Run
<1>5. CASE cmd.op = "seek"
  <2>1. cmd.to \in 1..MaxPos
    BY <1>5 DEF Commands
  <2> QED BY <1>5, <2>1, SeekType DEF Run
<1>6. cmd.op \in {"pause", "advance", "chip", "voice", "next", "previous", "select", "seek"}
  BY DEF Commands
<1> QED BY <1>1, <1>2, <1>3, <1>4, <1>5, <1>6

(* One frame, and what the session does after it.                           *)
LEMMA LaterType == ASSUME NEW x \in State PROVE Later(x) \in State
<1>1. x.pos \in 0..MaxPos
  BY DEF State
<1>2. Min({x.pos + 1, MaxPos}) \in 0..MaxPos
  <2> DEFINE a == x.pos + 1
  <2>1. a \in Nat /\ MaxPos \in Nat /\ a >= 0
    BY <1>1, Numbers, SMT
  <2>2. \E m \in {a, MaxPos} : \A y \in {a, MaxPos} : m <= y
    BY <2>1, SMT
  <2> DEFINE least == CHOOSE m \in {a, MaxPos} : \A y \in {a, MaxPos} : m <= y
  <2>3. least \in {a, MaxPos} /\ \A y \in {a, MaxPos} : least <= y
    BY <2>2
  <2>4. Min({a, MaxPos}) = least
    BY DEF Min
  <2> HIDE DEF least
  <2>5. least \in 0..MaxPos
    BY <2>1, <2>3, SMT
  <2> QED BY <2>4, <2>5
<1> QED BY <1>2, ZenonT(30) DEF Later, State

LEMMA EmulatedType == ASSUME NEW x \in State, NEW y \in Emulated(x) PROVE y \in State
BY LaterType, IoWriteType DEF Emulated

LEMMA AfterFrameType == ASSUME NEW x \in State PROVE AfterFrame(x) \in State
<1>1. FinishSeek(x) \in State
  <2>1. [x EXCEPT !.seekTo = 0, !.backend = "sink"] \in State
    BY Numbers, ZenonT(30) DEF State
  <2> QED BY <2>1, RestoreType DEF FinishSeek
<1>2. SongOver(x) \in State
  <2>1. x.song \in 1..Songs
    BY DEF State
  <2>2. x.song < Songs => x.song + 1 \in 1..Songs
    BY <2>1, Numbers, SMT
  <2>3. [x EXCEPT !.ended = TRUE] \in State
    BY ZenonT(30) DEF State
  <2> QED BY <2>2, <2>3, StartSongType, SilenceSinkType DEF SongOver
<1> QED BY <1>1, <1>2 DEF AfterFrame

(* Halt, Load, SetSink and Play.                                            *)
LEMMA StoppedType == ASSUME NEW x \in State PROVE Stopped(x) \in State
<1>1. \A w \in State : [w EXCEPT !.playing = FALSE, !.paused = FALSE, !.seekTo = 0] \in State
  BY Numbers, ZenonT(30) DEF State
<1> QED BY <1>1, SilenceSinkType DEF Stopped

LEMMA FreshType == ASSUME NEW x \in State PROVE Fresh(x) \in State /\ Refused(x) \in State
<1>1. Fresh(x) \in State
  BY Numbers, ZenonT(30) DEF State, Fresh
<1>2. \A w \in State : [w EXCEPT !.failed = TRUE] \in State
  BY ZenonT(30) DEF State
<1> QED BY <1>1, <1>2 DEF Refused

Caller == [at: {"free", "join", "halt", "load", "play", "sink", "thread"},
           what: {"stop", "load", "play", "sink"}]

(* Where the controlling thread goes from a step of its call.               *)
LEMMA GoToType ==
  ASSUME caller \in Caller,
         NEW step \in {"free", "join", "halt", "load", "play", "sink", "thread"},
         GoTo(step)
  PROVE  caller' \in Caller
BY DEF GoTo, Free, Caller

LEMMA EngineType == ASSUME TypeOK, EngineStep PROVE TypeOK'
<1>1. CASE Drain
  <2>1. RunAll(s, commands) \in State
    <3>1. \A y \in State, cmd \in Asked : Run(y, cmd) \in State
      BY RunType, AskedAssumption
    <3> QED BY <3>1, RunAllKeeps DEF TypeOK
  <2>2. <<>> \in Seq(Asked) /\ Len(<<>>) <= MaxQueue
    BY SessionAssumption, SMT
  <2> QED BY <1>1, <2>1, <2>2 DEF Drain, TypeOK
<1>2. CASE CheckStop \/ Wait \/ Timeout
  BY <1>2 DEF CheckStop, Wait, Timeout, TypeOK
<1>3. CASE Frame
  <2>1. s' \in State
    BY <1>3, EmulatedType, AfterFrameType DEF Frame, TypeOK
  <2> QED BY <1>3, <2>1 DEF Frame, TypeOK
<1>4. CASE FrameDone
  <2>1. [s EXCEPT !.failed = TRUE] \in State
    BY ZenonT(30) DEF State, TypeOK
  <2> QED BY <1>4, <2>1 DEF FrameDone, TypeOK
<1> QED BY <1>1, <1>2, <1>3, <1>4 DEF EngineStep

LEMMA CallerType == ASSUME TypeOK, CallerStep PROVE TypeOK'
<1>0. caller \in Caller /\ s \in State
  BY DEF TypeOK, Caller
<1>1. ASSUME s' \in State, caller' \in Caller, engine' \in {engine, "none", "lock"},
             commands' = commands \/ commands' = <<>>,
             running' \in BOOLEAN, stopping' \in BOOLEAN
      PROVE  TypeOK'
  <2>1. <<>> \in Seq(Asked) /\ Len(<<>>) <= MaxQueue
    BY SessionAssumption, SMT
  <2> QED BY <1>1, <2>1 DEF TypeOK, Caller
<1>2. CASE Join
  BY <1>0, <1>1, <1>2, GoToType DEF Join, TypeOK
<1>3. CASE Halt
  <2>1. caller' \in Caller
    <3>1. caller.what \in {"stop", "load", "play", "sink"}
      BY <1>0 DEF Caller
    <3> QED BY <1>0, <1>3, <3>1, GoToType DEF Halt
  <2> QED BY <1>0, <1>1, <1>3, <2>1, StoppedType DEF Halt, TypeOK
<1>4. CASE Load
  <2>1. /\ [s EXCEPT !.loaded = TRUE, !.song = FirstSong, !.pos = 0,
                     !.ended = FALSE, !.failed = FALSE] \in State
        /\ [s EXCEPT !.loaded = FALSE, !.ended = FALSE, !.failed = TRUE] \in State
    BY <1>0, Numbers, ZenonT(30) DEF State
  <2> QED BY <1>0, <1>1, <1>4, <2>1, GoToType DEF Load, TypeOK
<1>5. CASE SetSink
  <2>1. \A w \in State, b \in {"sink", "null", "gone"} :
          [w EXCEPT !.open = FALSE, !.held = FALSE, !.wire = Quiet, !.backend = b] \in State
    BY QuietIs, ZenonT(30) DEF State
  <2>2. \A w \in State : w.backend \in {"sink", "null", "gone"}
    BY DEF State
  <2>3. s' \in State
    BY <1>0, <1>5, <2>1, <2>2, SilenceSinkType DEF SetSink
  <2> QED BY <1>0, <1>1, <1>5, <2>3, GoToType DEF SetSink, TypeOK
<1>6. CASE PlayRefused
  BY <1>0, <1>1, <1>6, FreshType, GoToType DEF PlayRefused, TypeOK
<1>7. CASE Play
  <2>1. s' \in State
    BY <1>0, <1>7, FreshType, AttachType, StartSongType, Numbers DEF Play
  <2> QED BY <1>0, <1>1, <1>7, <2>1, GoToType DEF Play, TypeOK
<1>8. CASE StartThread
  BY <1>0, <1>1, <1>8, GoToType DEF StartThread, TypeOK
<1> QED BY <1>2, <1>3, <1>4, <1>5, <1>6, <1>7, <1>8 DEF CallerStep

LEMMA RunOrQueueType == ASSUME TypeOK, NEW cmd \in Asked, RunOrQueue(cmd) PROVE TypeOK'
<1>1. CASE running
  <2>1. Append(commands, cmd) \in Seq(Asked) /\ (Len(commands) < MaxQueue => Len(Append(commands, cmd)) <= MaxQueue)
    BY SessionAssumption, SMT DEF TypeOK
  <2> QED BY <1>1, <2>1 DEF RunOrQueue, TypeOK
<1>2. CASE ~running
  BY <1>2, RunType, AskedAssumption DEF RunOrQueue, TypeOK
<1> QED BY <1>1, <1>2

LEMMA CallType ==
  ASSUME TypeOK, NEW what \in {"stop", "load", "play", "sink"}, Call(what)
  PROVE  TypeOK'
<1>1. caller' = [at |-> "join", what |-> what] \/ caller' = [at |-> "halt", what |-> what]
  BY DEF Call
<1>2. caller' \in Caller
  BY <1>1 DEF Caller
<1> QED BY <1>2 DEF Call, TypeOK, Caller

(* The session keeps its type for every file and set of commands: no song,   *)
(* position or seek target leaves its range (start_song_with(), seek()).    *)
THEOREM SessionTypeOK == Spec => []TypeOK
<1>1. Init => TypeOK
  <2> SUFFICES ASSUME Init PROVE TypeOK
    OBVIOUS
  <2>1. s \in State
    <3>1. 1 \in 1..Songs
      BY Numbers, SessionAssumption, SMT
    <3> QED BY <3>1, QuietIs, Numbers, ZenonT(30) DEF Init, State
  <2>2. <<>> \in Seq(Asked) /\ Len(<<>>) <= MaxQueue
    BY SessionAssumption, SMT
  <2>3. caller \in Caller
    BY DEF Init, Free, Caller
  <2> QED BY <2>1, <2>2, <2>3 DEF Init, TypeOK, Caller
<1>2. TypeOK /\ [Next]_vars => TypeOK'
  <2>1. ASSUME TypeOK, UNCHANGED vars PROVE TypeOK'
    BY <2>1 DEF vars, TypeOK
  <2> QED BY <2>1, EngineType, CallerType, RunOrQueueType, CallType DEF Next
<1> QED BY <1>1, <1>2, PTL DEF Spec

----------------------------------------------------------------------------
(* What is heard. A running session has its board open, the machine writes   *)
(* to it but for a seek, and a board under MUTE is known to be (held_). What *)
(* plays agrees with the mirror register by register: the volume of a muted  *)
(* voice's chip too, or the chip would be wrong when the voice comes back.   *)

Linked(x) == x.open /\ x.backend = IF x.seekTo = 0 THEN "sink" ELSE "null"

Attached(x) == Linked(x) /\ (x.mute => x.held)

Agrees(x, c) ==
    \A r \in Regs : r = "volume" \/ c \notin x.voiceMute =>
        (r \in x.wire[c] <=> r \in x.mirror[c])

Faithful(x) == ~x.mute /\ \A c \in Chips \ (x.chipMute \cup x.pending) : Agrees(x, c)

Plays(x) == x.playing /\ x.seekTo = 0 /\ ~x.paused /\ ~x.ended

Sound(x) == Attached(x) /\ (Plays(x) /\ ~x.cut => Faithful(x))

(* restore() makes any attached session faithful, whatever it was before.    *)
LEMMA RestoreIs ==
  ASSUME NEW x \in State, Attached(x)
  PROVE  /\ Attached(Restore(x)) /\ Faithful(Restore(x))
         /\ Restore(x).seekTo = x.seekTo /\ Restore(x).paused = x.paused
BY SMT DEF State, Attached, Linked, Faithful, Restore, Agrees

(* A chip reset of an attached session leaves both sides quiet, in a seek    *)
(* the mirror alone.                                                        *)
LEMMA ResetChipsIs ==
  ASSUME NEW x \in State, Linked(x), x.seekTo = 0 \/ Attached(x)
  PROVE  /\ Attached(ResetChips(x))
         /\ ResetChips(x).seekTo = 0 => Faithful(ResetChips(x))
<1>1. CASE Reaches(x)
  BY <1>1, SMT DEF State, Attached, Linked, Faithful, Agrees, ResetChips
<1>2. CASE ~Reaches(x)
  <2>1. x.seekTo # 0
    BY <1>2 DEF Reaches, Attached, Linked
  <2> QED BY <1>2, <2>1, SMT DEF State, Attached, Linked, ResetChips
<1> QED BY <1>1, <1>2

(* set_chip_mute() and set_voice_mute() put back at a song start.            *)
LEMMA ApplyMutesSound == ASSUME NEW x \in State, Sound(x) PROVE Sound(ApplyMutes(x))
BY SMT DEF State, Sound, Attached, Linked, Plays, Faithful, ApplyMutes, Agrees

(* Whatever the session was doing, a song that starts is sound (init_tune(), *)
(* after_song_start()).                                                     *)
LEMMA StartSongSound ==
  ASSUME NEW x \in State, NEW n \in 1..Songs, Linked(x), x.seekTo = 0 \/ Attached(x)
  PROVE  Sound(StartSong(x, n))
<1> DEFINE y == [ResetChips(x) EXCEPT !.song = n, !.playing = TRUE]
           z == [y EXCEPT !.pos = 0, !.ended = FALSE]
           b == BackToSink(z)
           u == Unpaused(b)
<1>1. y \in State
  <2>1. \A w \in State : [w EXCEPT !.song = n, !.playing = TRUE] \in State
    BY ZenonT(30) DEF State
  <2> QED BY <2>1, ResetChipsType
<1>2. Attached(y) /\ (y.seekTo = 0 => Faithful(y))
  <2>1. \A w \in State : LET v == [w EXCEPT !.song = n, !.playing = TRUE] IN
           /\ Attached(w) => Attached(v)
           /\ Faithful(w) => Faithful(v)
           /\ v.seekTo = w.seekTo
    BY SMT DEF State, Attached, Linked, Faithful, Agrees
  <2> QED BY <2>1, ResetChipsType, ResetChipsIs
<1> HIDE DEF y
<1>3. z \in State
  BY <1>1, Numbers, ZenonT(30) DEF State
<1>4. Attached(z) /\ (z.seekTo = 0 => Faithful(z))
  BY <1>1, <1>2, SMT DEF State, Attached, Linked, Faithful, Agrees
<1> HIDE DEF z
<1>5. b \in State
  BY <1>3, BackToSinkType
<1>6. Attached(b) /\ b.seekTo = 0 /\ (b.cut \/ Faithful(b))
  <2>1. CASE z.seekTo = 0
    BY <1>4, <2>1 DEF BackToSink
  <2>2. CASE z.seekTo # 0
    BY <1>3, <1>4, <2>2, SMT DEF BackToSink, State, Attached, Linked
  <2> QED BY <2>1, <2>2
<1> HIDE DEF b
<1>7. u \in State
  BY <1>5, UnpausedType
<1>8. Attached(u) /\ (u.cut \/ Faithful(u))
  <2>1. CASE b.paused
    <3>1. [b EXCEPT !.paused = FALSE] \in State
      BY <1>5, ZenonT(30) DEF State
    <3>2. Attached([b EXCEPT !.paused = FALSE])
      BY <1>5, <1>6, SMT DEF State, Attached, Linked
    <3> QED BY <2>1, <3>1, <3>2, RestoreIs DEF Unpaused
  <2>2. CASE ~b.paused
    BY <1>6, <2>2 DEF Unpaused
  <2> QED BY <2>1, <2>2
<1> HIDE DEF u
<1>9. Sound(u)
  BY <1>8 DEF Sound
<1> QED BY <1>7, <1>9, ApplyMutesSound DEF StartSong, AfterSongStart, u, b, z, y

(* Pausing, and a seek that begins or moves.                                *)
LEMMA PauseSound ==
  ASSUME NEW x \in State, NEW on \in BOOLEAN, Sound(x)
  PROVE  Sound(Pause(x, on))
<1> DEFINE p == [x EXCEPT !.paused = TRUE]
           q == [x EXCEPT !.paused = FALSE]
<1>1. Sound(SilenceSink(p))
  BY SMT DEF State, Sound, Attached, Linked, Plays, SilenceSink
<1>2. q \in State
  BY ZenonT(30) DEF State
<1>3. Attached(q)
  BY SMT DEF State, Sound, Attached, Linked
<1>4. Sound(Restore(q))
  <2> HIDE DEF q
  <2> QED BY <1>2, <1>3, RestoreIs DEF Sound
<1> QED BY <1>1, <1>4 DEF Pause

LEMMA SeekSound ==
  ASSUME NEW x \in State, NEW to \in 1..MaxPos, Sound(x)
  PROVE  Sound(Seek(x, to))
<1>1. Sound([SilenceSink(x) EXCEPT !.backend = "null", !.seekTo = to])
  BY SMT DEF State, Sound, Attached, Linked, Plays, SilenceSink
<1>2. x.seekTo # 0 => Sound([x EXCEPT !.seekTo = to])
  BY SMT DEF State, Sound, Attached, Linked, Plays
<1> QED BY <1>1, <1>2 DEF Seek

(* Mutes set by a command: a chip waits in pending, a voice is written       *)
(* through at once.                                                         *)
LEMMA MuteSound ==
  ASSUME NEW x \in State, NEW c \in Chips, NEW on \in BOOLEAN, Sound(x)
  PROVE  Sound(MuteChip(x, c, on)) /\ Sound(MuteVoice(x, c, on))
<1> DEFINE k == [x EXCEPT !.chipKept = Put(@, c, on)]
           v == [x EXCEPT !.voiceKept = Put(@, c, on)]
<1>1. k \in State /\ v \in State
  <2>1. \A set \in SUBSET Chips : Put(set, c, on) \in SUBSET Chips
    BY DEF Put
  <2>2. x.chipKept \in SUBSET Chips /\ x.voiceKept \in SUBSET Chips
    BY DEF State
  <2>3. \A set \in SUBSET Chips :
           [x EXCEPT !.chipKept = set] \in State /\ [x EXCEPT !.voiceKept = set] \in State
    BY ZenonT(30) DEF State
  <2> QED BY <2>1, <2>2, <2>3
<1>2. Sound(k) /\ Sound(v)
  BY SMT DEF State, Sound, Attached, Linked, Plays, Faithful, Agrees
<1> HIDE DEF k, v
<1>3. \A y \in State : Sound(y) => Sound(SetChipMute(y, c, on))
  BY SMT DEF State, Sound, Attached, Linked, Plays, Faithful, SetChipMute, Put, Agrees
<1>4. \A y \in State : Sound(y) => Sound(SetVoiceMute(y, c, on))
  <2> SUFFICES ASSUME NEW y \in State, Sound(y) PROVE Sound(SetVoiceMute(y, c, on))
    OBVIOUS
  <2> QED BY SMT DEF State, Sound, Attached, Linked, Plays, Faithful, SetVoiceMute, Put, Send,
             Reaches, Masked, Agrees, Regs
<1> QED BY <1>1, <1>2, <1>3, <1>4 DEF MuteChip, MuteVoice, k, v

LEMMA RunSound ==
  ASSUME NEW x \in State, NEW cmd \in Commands, Sound(x)
  PROVE  Sound(Run(x, cmd))
<1>0. Attached(x) /\ Linked(x)
  BY DEF Sound, Attached
<1>1. CASE cmd.op = "pause" \/ cmd.op = "advance"
  <2>1. cmd.on \in BOOLEAN
    BY <1>1 DEF Commands
  <2>2. Sound([x EXCEPT !.advance = cmd.on])
    BY SMT DEF State, Sound, Attached, Linked, Plays, Faithful, Agrees
  <2> QED BY <1>1, <2>1, <2>2, PauseSound DEF Run
<1>2. CASE cmd.op = "chip" \/ cmd.op = "voice"
  <2>1. cmd.on \in BOOLEAN /\ cmd.chip \in Chips
    BY <1>2 DEF Commands
  <2> QED BY <1>2, <2>1, MuteSound DEF Run
<1>3. CASE cmd.op = "next" \/ cmd.op = "previous"
  <2>1. x.song \in 1..Songs
    BY DEF State
  <2>2. NextSong(x.song) \in 1..Songs /\ PreviousSong(x.song) \in 1..Songs
    BY <2>1, Numbers, SMT DEF NextSong, PreviousSong
  <2> QED BY <1>0, <1>3, <2>2, StartSongSound DEF Run
<1>4. CASE cmd.op = "select"
  <2>1. cmd.song \in 1..Songs
    BY <1>4 DEF Commands
  <2> QED BY <1>0, <1>4, <2>1, StartSongSound DEF Run
<1>5. CASE cmd.op = "seek"
  <2>1. cmd.to \in 1..MaxPos
    BY <1>5 DEF Commands
  <2> QED BY <1>5, <2>1, SeekSound DEF Run
<1>6. cmd.op \in {"pause", "advance", "chip", "voice", "next", "previous", "select", "seek"}
  BY DEF Commands
<1> QED BY <1>1, <1>2, <1>3, <1>4, <1>5, <1>6

(* The mutes that wait are applied before a write of the tune               *)
(* (apply_chip_mute_pending()): an unmuted chip gets its whole register file.*)
LEMMA AppliedSound == ASSUME NEW x \in State, Sound(x) PROVE Sound(Applied(x))
<1> DEFINE y == [x EXCEPT !.pending = {}]
           w == [c \in Chips |-> IF c \notin x.pending THEN y.wire[c]
                                 ELSE IF c \in y.chipMute THEN Silence(y, c).wire[c]
                                 ELSE Send(y, c, Regs).wire[c]]
           z == [y EXCEPT !.wire = w]
<1>1. Applied(x) = z
  BY DEF Applied, Apply
<1>2. y \in State
  BY ZenonT(30) DEF State
<1>3. /\ y.mirror = x.mirror /\ y.wire = x.wire /\ y.mute = x.mute /\ y.pending = {}
      /\ y.chipMute = x.chipMute /\ y.voiceMute = x.voiceMute
      /\ y.open = x.open /\ y.backend = x.backend
  BY SMT DEF State
<1>4. /\ z.mirror = x.mirror /\ z.wire = w /\ z.mute = x.mute /\ z.pending = {}
      /\ z.chipMute = x.chipMute /\ z.voiceMute = x.voiceMute
      /\ z.open = x.open /\ z.backend = x.backend /\ z.seekTo = x.seekTo
      /\ z.held = x.held /\ z.cut = x.cut /\ z.playing = x.playing
      /\ z.paused = x.paused /\ z.ended = x.ended
  <2> HIDE DEF w
  <2> QED BY SMT DEF State
<1>5. Attached(z)
  BY <1>4 DEF Sound, Attached, Linked
<1>6. ASSUME Plays(x), ~x.cut
      PROVE  Faithful(z)
  <2>1. Faithful(x) /\ Reaches(x)
    BY <1>6 DEF Sound, Attached, Linked, Plays, Reaches
  <2>2. ~z.mute
    BY <1>4, <2>1 DEF Faithful
  <2>3. ASSUME NEW c \in Chips, c \notin z.chipMute
        PROVE  Agrees(z, c)
    <3>1. CASE c \notin x.pending
      <4>1. z.wire[c] = x.wire[c]
        BY <1>3, <1>4, <3>1
      <4>2. Agrees(x, c)
        BY <1>4, <2>1, <2>3, <3>1 DEF Faithful
      <4> QED BY <1>4, <4>1, <4>2 DEF Agrees
    <3>2. CASE c \in x.pending
      <4>1. z.wire[c] = Send(y, c, Regs).wire[c]
        BY <1>3, <1>4, <2>3, <3>2
      <4>2. Reaches(y)
        BY <1>3, <2>1 DEF Reaches
      <4>3. Send(y, c, Regs).wire[c] = (y.wire[c] \ Regs) \cup (Masked(y, c) \cap Regs)
        <5> HIDE DEF y
        <5>1. Send(y, c, Regs) = [y EXCEPT !.wire[c] = (@ \ Regs) \cup (Masked(y, c) \cap Regs)]
          BY <4>2 DEF Send
        <5> QED BY <1>2, <5>1, SMT DEF State
      <4>4. \A r \in Regs : r \in z.wire[c] <=> r \in Masked(y, c)
        BY <4>1, <4>3
      <4>5. \A r \in Regs : r = "volume" \/ c \notin x.voiceMute =>
               (r \in Masked(y, c) <=> r \in x.mirror[c])
        <5> HIDE DEF y
        <5> QED BY <1>3 DEF Masked
      <4> QED BY <1>4, <4>4, <4>5 DEF Agrees
    <3> QED BY <3>1, <3>2
  <2> QED BY <2>2, <2>3 DEF Faithful
<1>7. Sound(z)
  <2> HIDE DEF z
  <2> QED BY <1>4, <1>5, <1>6 DEF Sound, Plays
<1> QED BY <1>1, <1>7

(* A write of the tune reaches the wire as it reaches the mirror             *)
(* (io_write()), but for a muted voice.                                     *)
LEMMA IoWriteSound ==
  ASSUME NEW x \in State, NEW c \in Chips, NEW r \in Regs, NEW on \in BOOLEAN, Sound(x)
  PROVE  Sound(IoWrite(x, c, r, on))
<1> DEFINE y == Applied(x)
           z == Mirrored(y, c, r, on)
<1>1. y \in State /\ Sound(y)
  BY AppliedType, AppliedSound
<1> HIDE DEF y
<1>2. CASE c \in y.chipMute
  <2>1. Sound(z)
    BY <1>1, <1>2, SMT DEF State, Sound, Attached, Linked, Plays, Faithful, Agrees, Mirrored
  <2>2. z.chipMute = y.chipMute
    BY <1>1, SMT DEF State, Mirrored
  <2>3. IoWrite(x, c, r, on) = z
    <3> HIDE DEF z
    <3>1. IoWrite(x, c, r, on) = Output(z, c, r)
      BY DEF IoWrite, z, y
    <3> QED BY <1>2, <2>2, <3>1 DEF Output
  <2> QED BY <2>1, <2>3
<1>3. CASE c \notin y.chipMute
  <2>1. z.chipMute = y.chipMute
    BY <1>1, SMT DEF State, Mirrored
  <2>2. IoWrite(x, c, r, on) = Send(z, c, {r})
    <3> HIDE DEF z
    <3>1. IoWrite(x, c, r, on) = Output(z, c, r)
      BY DEF IoWrite, z, y
    <3> QED BY <1>3, <2>1, <3>1 DEF Output
  <2>3. Sound(Send(z, c, {r}))
    BY <1>1, <1>3, SMTT(30) DEF State, Sound, Attached, Linked, Plays, Faithful, Agrees, Mirrored, Send,
       Reaches, Masked, Put, Regs
  <2> QED BY <2>2, <2>3
<1> QED BY <1>2, <1>3

(* A frame and what follows it.                                             *)
LEMMA EmulatedSound ==
  ASSUME NEW x \in State, Sound(x), NEW y \in Emulated(x)
  PROVE  Sound(y)
<1>1. \A w \in State : Sound(w) => Sound(Later(w))
  <2> SUFFICES ASSUME NEW w \in State, Sound(w), NEW p
               PROVE  Sound([w EXCEPT !.pos = p])
    BY DEF Later
  <2> QED BY SMT DEF State, Sound, Attached, Linked, Plays, Faithful, Agrees
<1> QED BY <1>1, IoWriteType, IoWriteSound DEF Emulated

LEMMA AfterFrameSound == ASSUME NEW x \in State, Sound(x) PROVE Sound(AfterFrame(x))
<1>1. CASE x.seekTo # 0
  <2> DEFINE y == [x EXCEPT !.seekTo = 0, !.backend = "sink"]
  <2>1. y \in State
    BY Numbers, ZenonT(30) DEF State
  <2>2. Attached(y)
    BY SMT DEF State, Sound, Attached, Linked
  <2> HIDE DEF y
  <2>3. Sound(Restore(y))
    BY <2>1, <2>2, RestoreIs DEF Sound
  <2> QED BY <1>1, <2>3 DEF AfterFrame, FinishSeek, y
<1>2. CASE x.seekTo = 0
  <2>1. Sound(SilenceSink([x EXCEPT !.ended = TRUE]))
    BY SMT DEF State, Sound, Attached, Linked, Plays, SilenceSink
  <2>2. x.song < Songs => x.song + 1 \in 1..Songs
    <3>1. x.song \in 1..Songs
      BY DEF State
    <3> QED BY <3>1, Numbers, SMT
  <2>3. Sound(SongOver(x))
    BY <2>1, <2>2, StartSongSound DEF SongOver, Sound, Attached
  <2> QED BY <1>2, <2>3 DEF AfterFrame
<1> QED BY <1>1, <1>2

(* begin() opens the board and attaches it, and its first song is sound       *)
(* whatever was left in the board.                                          *)
LEMMA PlaySound ==
  ASSUME NEW x \in State
  PROVE  Sound(StartSong(Attach(Fresh(x)), FirstSong))
<1> DEFINE y == Fresh(x)
           z == Attach(y)
<1>1. y \in State /\ y.seekTo = 0
  <2>1. y.seekTo = 0
    BY SMT DEF State, Fresh
  <2> QED BY <2>1, FreshType
<1> HIDE DEF y
<1>2. z \in State
  BY <1>1, AttachType
<1>3. Linked(z) /\ z.seekTo = 0
  BY <1>1, SMT DEF State, Attach, Opened, Linked
<1> HIDE DEF z
<1>4. Sound(StartSong(z, FirstSong))
  BY <1>2, <1>3, Numbers, StartSongSound
<1> QED BY <1>4 DEF z, y

----------------------------------------------------------------------------
(* The session as a whole.                                                  *)

SoundInv ==
    /\ running => Sound(s)
    /\ caller.at \in {"halt", "load", "play", "sink"} => ~running

LEMMA SoundStep == ASSUME TypeOK, SoundInv, [Next]_vars PROVE SoundInv'
<1>0. s \in State /\ caller \in Caller /\ commands \in Seq(Asked)
  BY DEF TypeOK, Caller
<1>1. ASSUME NEW cmd \in Asked, RunOrQueue(cmd)
      PROVE  SoundInv'
  BY <1>1 DEF RunOrQueue, SoundInv
<1>2. ASSUME NEW what \in {"stop", "load", "play", "sink"}, Call(what)
      PROVE  SoundInv'
  <2>1. UNCHANGED <<s, running>> /\ (running => caller'.at = "join")
    BY <1>2 DEF Call
  <2> QED BY <2>1 DEF SoundInv
<1>3. ASSUME EngineStep
      PROVE  SoundInv'
  <2>1. UNCHANGED <<running, caller>>
    BY <1>3 DEF EngineStep, Drain, CheckStop, Wait, Timeout, Frame, FrameDone
  <2>2. ASSUME Sound(s)
        PROVE  Sound(s')
    <3>1. CASE Drain
      <4> DEFINE Kept == {x \in State : Sound(x)}
      <4>1. s \in Kept /\ \A y \in Kept, cmd \in Asked : Run(y, cmd) \in Kept
        BY <1>0, <2>2, RunType, RunSound, AskedAssumption
      <4>2. RunAll(s, commands) \in Kept
        <5> HIDE DEF Kept
        <5> QED BY <1>0, <4>1, RunAllKeeps
      <4> QED BY <2>2, <3>1, <4>2 DEF Drain
    <3>2. CASE CheckStop \/ Wait \/ Timeout
      BY <2>2, <3>2 DEF CheckStop, Wait, Timeout
    <3>3. CASE Frame
      BY <1>0, <2>2, <3>3, EmulatedType, EmulatedSound, AfterFrameSound DEF Frame
    <3>4. CASE FrameDone
      BY <2>2, <3>4 DEF FrameDone, Sound, Attached, Linked
    <3> QED BY <1>3, <3>1, <3>2, <3>3, <3>4 DEF EngineStep
  <2> QED BY <2>1, <2>2 DEF SoundInv
<1>4. ASSUME Join \/ Halt \/ Load \/ SetSink \/ PlayRefused
      PROVE  SoundInv'
  <2>1. ~running'
    BY <1>4 DEF Join, Halt, Load, SetSink, PlayRefused, SoundInv, At
  <2> QED BY <2>1 DEF SoundInv
<1>5. ASSUME Play \/ StartThread
      PROVE  SoundInv'
  <2>1. caller'.at \in {"thread", "free"}
    BY <1>0, <1>5 DEF Play, StartThread, GoTo, Free, Caller
  <2>2. CASE Play
    <3>1. Sound(s')
      BY <1>0, <2>2, PlaySound DEF Play
    <3> QED BY <2>1, <3>1 DEF SoundInv
  <2>3. CASE StartThread
    BY <2>1, <2>3 DEF StartThread, SoundInv
  <2> QED BY <1>5, <2>2, <2>3
<1>6. CASE UNCHANGED vars
  BY <1>6 DEF vars, SoundInv
<1> QED BY <1>1, <1>2, <1>3, <1>4, <1>5, <1>6 DEF Next, CallerStep

(* A running session is sound in every state: what its two threads, the      *)
(* commands and the tune do to it keeps the link to the board and what is    *)
(* heard (session.cpp, session_board.cpp, mos6581_8580.cpp).                *)
THEOREM SessionIsSound == Spec => []SoundInv
<1>1. Init => SoundInv
  BY DEF Init, SoundInv
<1>2. TypeOK /\ SoundInv /\ [Next]_vars => SoundInv'
  BY SoundStep
<1> QED BY <1>1, <1>2, SessionTypeOK, PTL DEF Spec

(* The machine writes to the output exactly while no seek runs, through any  *)
(* order of seeks, pauses, song changes, ends of songs, stops and plays      *)
(* (seek(), after_song_start(), begin()).                                   *)
THEOREM SeekHoldsBackend == Spec => []BackendFollowsSeek
<1>1. SoundInv => BackendFollowsSeek
  BY DEF SoundInv, Sound, Attached, Linked, BackendFollowsSeek
<1> QED BY <1>1, SessionIsSound, PTL

(* What plays is heard as the tune wrote it: no pause, seek that was reached,*)
(* mute or song change leaves the board under MUTE or with other registers   *)
(* than the mirror's (restore(), io_write(), set_voice_mute()).             *)
THEOREM PlayingIsHeard == Spec => []HeardAsWritten
<1>1. TypeOK /\ SoundInv => HeardAsWritten
  <2> SUFFICES ASSUME TypeOK, SoundInv, Sounding, ~s.cut PROVE AsWritten
    BY DEF HeardAsWritten
  <2>1. Faithful(s)
    BY DEF SoundInv, Sound, Sounding, Plays
  <2>2. ASSUME NEW c \in Chips \ (s.chipMute \cup s.voiceMute \cup s.pending)
        PROVE  s.wire[c] = s.mirror[c]
    <3>1. s.wire[c] \subseteq Regs /\ s.mirror[c] \subseteq Regs
      BY DEF TypeOK, State
    <3>2. \A r \in Regs : r \in s.wire[c] <=> r \in s.mirror[c]
      BY <2>1 DEF Faithful, Agrees
    <3> QED BY <3>1, <3>2
  <2> QED BY <2>1, <2>2 DEF AsWritten, Faithful
<1> QED BY <1>1, SessionIsSound, SessionTypeOK, PTL

----------------------------------------------------------------------------
(* A command never survives the playback it was given in.                   *)

QueueInv == NothingLeftWaiting /\ caller \in Caller

(* The engine thread only empties the queue.                                *)
LEMMA EngineQueue == ASSUME QueueInv, EngineStep PROVE QueueInv'
<1>1. UNCHANGED <<running, caller>> /\ (commands' = commands \/ commands' = <<>>)
  BY DEF EngineStep, Drain, CheckStop, Wait, Timeout, Frame, FrameDone
<1> QED BY <1>1 DEF QueueInv, NothingLeftWaiting

(* A command given to a stopped session runs at once (run_or_queue()).      *)
LEMMA GivenQueue == ASSUME QueueInv, NEW cmd \in Asked, RunOrQueue(cmd) PROVE QueueInv'
BY DEF RunOrQueue, QueueInv, NothingLeftWaiting

(* stop() begins: the queue is not looked at again before its second half.  *)
LEMMA CallQueue ==
  ASSUME QueueInv, NEW what \in {"stop", "load", "play", "sink"}, Call(what)
  PROVE  QueueInv'
<1>1. CASE running
  BY <1>1 DEF Call, QueueInv, NothingLeftWaiting, Caller
<1>2. CASE ~running
  BY <1>2 DEF Call, QueueInv, NothingLeftWaiting, Caller
<1> QED BY <1>1, <1>2

(* The rest of stop(), and the calls that begin with it.                    *)
LEMMA CallerQueue == ASSUME QueueInv, CallerStep PROVE QueueInv'
<1>1. CASE Join
  <2>1. running' = FALSE /\ caller' = [caller EXCEPT !.at = "halt"]
    BY <1>1 DEF Join, GoTo
  <2>2. caller'.at = "halt" /\ caller' \in Caller
    BY <2>1 DEF QueueInv, Caller
  <2> QED BY <2>2 DEF QueueInv, NothingLeftWaiting
<1>2. CASE Halt
  <2>1. commands' = <<>> /\ GoTo(IF caller.what = "stop" THEN "free" ELSE caller.what)
    BY <1>2 DEF Halt
  <2>2. caller' \in Caller
    BY <2>1 DEF GoTo, Free, QueueInv, Caller
  <2> QED BY <2>1, <2>2 DEF QueueInv, NothingLeftWaiting
<1>3. CASE Load \/ SetSink \/ PlayRefused \/ StartThread
  <2>1. /\ caller.at # "halt" /\ caller' = Free
        /\ UNCHANGED <<commands, running>>
    BY <1>3 DEF Load, SetSink, PlayRefused, StartThread, At, GoTo
  <2>2. caller' \in Caller
    BY <2>1 DEF Free, Caller
  <2> QED BY <2>1, <2>2 DEF QueueInv, NothingLeftWaiting
<1>4. CASE Play
  <2>1. running' = TRUE /\ caller' = [caller EXCEPT !.at = "thread"]
    BY <1>4 DEF Play, GoTo
  <2>2. caller' \in Caller
    BY <2>1 DEF QueueInv, Caller
  <2> QED BY <2>1, <2>2 DEF QueueInv, NothingLeftWaiting
<1> QED BY <1>1, <1>2, <1>3, <1>4 DEF CallerStep

(* A command is run in the playback it was given in or not at all: stop()    *)
(* clears what the engine left (session.cpp, stop() and run_or_queue()).    *)
THEOREM NoneSurvives == Spec => []NothingLeftWaiting
<1>1. Init => QueueInv
  BY DEF Init, QueueInv, NothingLeftWaiting, Caller, Free
<1>2. QueueInv /\ [Next]_vars => QueueInv'
  <2>1. ASSUME QueueInv, UNCHANGED vars PROVE QueueInv'
    BY <2>1 DEF vars, QueueInv, NothingLeftWaiting
  <2> QED BY <2>1, EngineQueue, GivenQueue, CallQueue, CallerQueue DEF Next
<1>3. QueueInv => NothingLeftWaiting
  BY DEF QueueInv
<1> QED BY <1>1, <1>2, <1>3, PTL DEF Spec
=============================================================================
