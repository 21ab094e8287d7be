------------------------------- MODULE Session -------------------------------
(* A session playing a tune on a USBSID-Pico board: an engine thread that    *)
(* emulates frames, a controlling thread that plays, stops, loads and        *)
(* changes the output, and any thread that gives commands. The lock of the   *)
(* session is held from the engine's loop test to the end of its frame.      *)
EXTENDS SidFront, Integers, Sequences, SequencesExt

CONSTANTS
  Songs,        \* subtunes of the file
  FirstSong,    \* the song load() is called with, start_song_
  SongLength,   \* frames a song lasts, from the song length database
  MaxPos,       \* bound: frames counted in one song
  MaxQueue,     \* bound: commands waiting
  Asked         \* the commands the environment gives

ASSUME SessionAssumption ==
    /\ Songs \in Nat \ {0}
    /\ FirstSong \in 1..Songs
    /\ SongLength \in 1..MaxPos
    /\ MaxPos \in Nat
    /\ MaxQueue \in Nat

VARIABLES
  s,          \* what the session's lock protects, the chips and the board;
              \* s.cut: a song change ended a seek, nothing restored the board since
  commands,   \* commands_
  running,    \* running_
  stopping,   \* stopping_
  engine,     \* where the engine thread is
  caller      \* what the controlling thread is in, and what follows its stop()

vars == <<s, commands, running, stopping, engine, caller>>

Commands == [op: {"pause", "advance"}, on: BOOLEAN]
            \cup [op: {"chip", "voice"}, chip: Chips, on: BOOLEAN]
            \cup [op: {"next", "previous"}]
            \cup [op: {"select"}, song: 1..Songs]
            \cup [op: {"seek"}, to: 1..MaxPos]

ASSUME AskedAssumption == Asked \subseteq Commands

State == [mirror: [Chips -> SUBSET Regs], chipMute: SUBSET Chips,
          voiceMute: SUBSET Chips, pending: SUBSET Chips,
          chipKept: SUBSET Chips, voiceKept: SUBSET Chips,
          wire: [Chips -> SUBSET Regs], mute: BOOLEAN, open: BOOLEAN,
          held: BOOLEAN, backend: {"sink", "null", "gone"},
          loaded: BOOLEAN, playing: BOOLEAN, song: 1..Songs,
          pos: 0..MaxPos, seekTo: 0..MaxPos, paused: BOOLEAN,
          ended: BOOLEAN, failed: BOOLEAN, advance: BOOLEAN, cut: BOOLEAN]

Holding == engine \in {"drained", "work"}   \* the engine has the lock
LockFree == ~Holding

----------------------------------------------------------------------------
(* The board and its sink.                                                  *)

SilenceSink(x) ==
    IF x.held \/ ~x.open THEN x
    ELSE [x EXCEPT !.held = TRUE, !.wire = Quiet, !.mute = TRUE]

Restore(x) ==
    IF ~x.open THEN x
    ELSE [x EXCEPT !.held = FALSE, !.mute = IF x.held THEN FALSE ELSE @,
                   !.wire = x.mirror, !.cut = FALSE]

\* Opening a board clears its registers, not its MUTE.
Opened(x) == IF x.open THEN x ELSE [x EXCEPT !.open = TRUE, !.wire = Quiet]
Attach(x) == [Opened(x) EXCEPT !.backend = "sink", !.held = FALSE, !.cut = FALSE,
                               !.mute = IF x.held THEN FALSE ELSE @]

\* Mos6581_8580::reset(), with the board's own reset when it is the backend.
ResetChips(x) ==
    IF Reaches(x)
    THEN [x EXCEPT !.mirror = Quiet, !.wire = Quiet, !.mute = FALSE]
    ELSE [x EXCEPT !.mirror = Quiet]

----------------------------------------------------------------------------
(* The commands, run with the lock held.                                    *)

\* apply_mutes(): every kept mute is set again, chip and voice.
ApplyMutes(x) ==
    [x EXCEPT !.pending = @ \cup (x.chipKept \ x.chipMute),
              !.chipMute = @ \cup x.chipKept,
              !.voiceMute = @ \cup x.voiceKept]

BackToSinkFlagOnly(x) == [x EXCEPT !.seekTo = 0, !.cut = TRUE]

BackToSink(x) == IF x.seekTo = 0 THEN x
                 ELSE [x EXCEPT !.seekTo = 0, !.backend = "sink", !.cut = TRUE]
Unpaused(x) == IF x.paused THEN Restore([x EXCEPT !.paused = FALSE]) ELSE x

AfterSongStart(x) ==
    ApplyMutes(Unpaused(BackToSink([x EXCEPT !.pos = 0, !.ended = FALSE])))

\* init_tune() of the player and what the session does after it.
StartSong(x, n) == AfterSongStart([ResetChips(x) EXCEPT !.song = n, !.playing = TRUE])

NextSong(n) == (n % Songs) + 1
PreviousSongNoWrap(n) == n - 1

PreviousSong(n) == IF n = 1 THEN Songs ELSE n - 1

Pause(x, on) ==
    IF ~x.playing \/ x.paused = on \/ x.ended \/ x.failed THEN x
    ELSE IF on THEN SilenceSink([x EXCEPT !.paused = TRUE])
         ELSE Restore([x EXCEPT !.paused = FALSE])

Seek(x, to) ==
    IF ~x.playing \/ x.ended \/ x.failed \/ to <= x.pos THEN x
    ELSE IF x.seekTo = 0 THEN [SilenceSink(x) EXCEPT !.backend = "null", !.seekTo = to]
         ELSE [x EXCEPT !.seekTo = to]

MuteChip(x, c, on) == SetChipMute([x EXCEPT !.chipKept = Put(@, c, on)], c, on)
MuteVoice(x, c, on) == SetVoiceMute([x EXCEPT !.voiceKept = Put(@, c, on)], c, on)

Run(x, cmd) ==
    CASE cmd.op = "pause"    -> Pause(x, cmd.on)
      [] cmd.op = "advance"  -> [x EXCEPT !.advance = cmd.on]
      [] cmd.op = "chip"     -> MuteChip(x, cmd.chip, cmd.on)
      [] cmd.op = "voice"    -> MuteVoice(x, cmd.chip, cmd.on)
      [] cmd.op = "next"     -> IF x.playing /\ Songs > 1
                                THEN StartSong(x, NextSong(x.song)) ELSE x
      [] cmd.op = "previous" -> IF x.playing /\ Songs > 1
                                THEN StartSong(x, PreviousSong(x.song)) ELSE x
      [] cmd.op = "select"   -> IF x.playing THEN StartSong(x, cmd.song) ELSE x
      [] cmd.op = "seek"     -> Seek(x, cmd.to)

\* The queued commands, first to last
RunAll(x, cmds) ==
    LET after[n \in 0..Len(cmds)] ==
            IF n = 0 THEN x ELSE Run(after[n - 1], cmds[n])
    IN  after[Len(cmds)]

RunOrQueue(cmd) ==
    /\ LockFree
    /\ IF running
       THEN /\ Len(commands) < MaxQueue
            /\ commands' = Append(commands, cmd)
            /\ engine' = IF engine = "idle" THEN "lock" ELSE engine
            /\ s' = s
       ELSE /\ s' = Run(s, cmd)
            /\ UNCHANGED <<commands, engine>>
    /\ UNCHANGED <<running, stopping, caller>>

----------------------------------------------------------------------------
(* The engine thread.                                                       *)

\* Loop test and the queued commands, under the lock.
Drain ==
    /\ engine = "lock"
    /\ IF stopping
       THEN engine' = "left" /\ UNCHANGED <<s, commands>>
       ELSE /\ s' = RunAll(s, commands)
            /\ commands' = <<>>
            /\ engine' = "drained"
    /\ UNCHANGED <<running, stopping, caller>>

CheckStop ==
    /\ engine = "drained"
    /\ engine' = IF stopping THEN "left" ELSE "work"
    /\ UNCHANGED <<s, commands, running, stopping, caller>>

NothingToDo(x) == x.paused \/ x.ended \/ x.failed \/ ~x.playing

Wait ==
    /\ engine = "work"
    /\ NothingToDo(s)
    /\ engine' = "idle"
    /\ UNCHANGED <<s, commands, running, stopping, caller>>

IdleEndsNever == FALSE

\* kIdleWait: the engine waits for a notification, but never longer.
IdleEnds == engine = "idle"

Timeout ==
    /\ IdleEnds
    /\ engine' = "lock"
    /\ UNCHANGED <<s, commands, running, stopping, caller>>

\* The tune writes at most one register group of one chip in a frame.
Later(x) == [x EXCEPT !.pos = Min({x.pos + 1, MaxPos})]
Emulated(x) == {Later(x)} \cup
    {Later(IoWrite(x, c, r, on)) : c \in Chips, r \in Regs, on \in BOOLEAN}

FinishSeek(x) == Restore([x EXCEPT !.seekTo = 0, !.backend = "sink"])

\* The song has played its length: the next one, or the end.
SongOver(x) ==
    IF x.advance /\ x.song < Songs THEN StartSong(x, x.song + 1)
    ELSE SilenceSink([x EXCEPT !.ended = TRUE])

AfterFrame(x) ==
    IF x.seekTo # 0
    THEN IF x.pos >= x.seekTo THEN FinishSeek(x) ELSE x
    ELSE IF x.pos >= SongLength THEN SongOver(x) ELSE x

Frame ==
    /\ engine = "work"
    /\ ~NothingToDo(s)
    /\ \E x \in Emulated(s) : s' = AfterFrame(x)
    /\ engine' = IF s.seekTo # 0 THEN "lock" ELSE "out"
    /\ UNCHANGED <<commands, running, stopping, caller>>

\* frame_done() and the pacer outside the lock; it fails without the board.
FrameDone ==
    /\ engine = "out"
    /\ s' = IF s.open THEN s ELSE [s EXCEPT !.failed = TRUE]
    /\ engine' = "lock"
    /\ UNCHANGED <<commands, running, stopping, caller>>

----------------------------------------------------------------------------
(* The controlling thread: stop(), and the calls that begin with it.        *)

At(step) == caller.at = step
Free == [at |-> "free", what |-> "stop"]
GoTo(step) == caller' = IF step = "free" THEN Free ELSE [caller EXCEPT !.at = step]

\* stop() up to the join: the flag and the notification are not locked.
Call(what) ==
    /\ At("free")
    /\ IF running
       THEN /\ stopping' = TRUE
            /\ engine' = IF engine = "idle" THEN "lock" ELSE engine
            /\ caller' = [at |-> "join", what |-> what]
       ELSE /\ caller' = [at |-> "halt", what |-> what]
            /\ UNCHANGED <<stopping, engine>>
    /\ UNCHANGED <<s, commands, running>>

Join ==
    /\ At("join")
    /\ engine = "left"
    /\ engine' = "none"
    /\ running' = FALSE
    /\ GoTo("halt")
    /\ UNCHANGED <<s, commands, stopping>>

Stopped(x) == [(IF x.playing THEN SilenceSink(x) ELSE x)
               EXCEPT !.playing = FALSE, !.paused = FALSE, !.seekTo = 0]

HaltKeepsQueue ==
    /\ At("halt")
    /\ LockFree
    /\ s' = Stopped(s)
    /\ GoTo(IF caller.what = "stop" THEN "free" ELSE caller.what)
    /\ UNCHANGED <<commands, running, stopping, engine>>

\* The rest of stop(), under the lock again.
Halt ==
    /\ At("halt")
    /\ LockFree
    /\ commands' = <<>>
    /\ s' = Stopped(s)
    /\ GoTo(IF caller.what = "stop" THEN "free" ELSE caller.what)
    /\ UNCHANGED <<running, stopping, engine>>

Load ==
    /\ At("load")
    /\ \E ok \in BOOLEAN :
         s' = IF ok THEN [s EXCEPT !.loaded = TRUE, !.song = FirstSong, !.pos = 0,
                                   !.ended = FALSE, !.failed = FALSE]
              ELSE [s EXCEPT !.loaded = FALSE, !.ended = FALSE, !.failed = TRUE]
    /\ GoTo("free")
    /\ UNCHANGED <<commands, running, stopping, engine>>

\* set_sink(): the old sink is silenced and destroyed, the machine keeps the
\* backend it had.
SetSink ==
    /\ At("sink")
    /\ s' = LET old == SilenceSink(s) IN
            [old EXCEPT !.open = FALSE, !.held = FALSE,
                        !.wire = Quiet,
                        !.backend = IF s.backend = "sink" THEN "gone" ELSE @]
    /\ GoTo("free")
    /\ UNCHANGED <<commands, running, stopping, engine>>

Fresh(x) == [x EXCEPT !.ended = FALSE, !.failed = FALSE, !.paused = FALSE,
                      !.seekTo = 0, !.pos = 0]
Refused(x) == [Fresh(x) EXCEPT !.failed = TRUE]

\* begin() refuses: nothing loaded, or the board does not open.
PlayRefused ==
    /\ At("play")
    /\ ~s.loaded \/ ~s.open
    /\ s' = Refused(s)
    /\ GoTo("free")
    /\ UNCHANGED <<commands, running, stopping, engine>>

\* begin(), and the flags set under the same lock.
Play ==
    /\ At("play")
    /\ s.loaded
    /\ s' = StartSong(Attach(Fresh(s)), FirstSong)
    /\ stopping' = FALSE
    /\ running' = TRUE
    /\ GoTo("thread")
    /\ UNCHANGED <<commands, engine>>

\* thread_ is started after the lock is released.
StartThread ==
    /\ At("thread")
    /\ engine' = "lock"
    /\ GoTo("free")
    /\ UNCHANGED <<s, commands, running, stopping>>

----------------------------------------------------------------------------
Init ==
    /\ s = [mirror |-> Quiet, chipMute |-> {}, voiceMute |-> {}, pending |-> {},
            chipKept |-> {}, voiceKept |-> {}, wire |-> Quiet, mute |-> FALSE,
            open |-> FALSE, held |-> FALSE, backend |-> "null",
            loaded |-> FALSE, playing |-> FALSE, song |-> 1, pos |-> 0,
            seekTo |-> 0, paused |-> FALSE, ended |-> FALSE, failed |-> FALSE,
            advance |-> TRUE, cut |-> FALSE]
    /\ commands = <<>>
    /\ running = FALSE
    /\ stopping = FALSE
    /\ engine = "none"
    /\ caller = Free

EngineStep == Drain \/ CheckStop \/ Wait \/ Timeout \/ Frame \/ FrameDone
CallerStep == Join \/ Halt \/ Load \/ SetSink \/ PlayRefused \/ Play \/ StartThread

Next ==
    \/ \E cmd \in Asked : RunOrQueue(cmd)
    \/ \E what \in {"stop", "load", "play", "sink"} : Call(what)
    \/ EngineStep
    \/ CallerStep

Spec == Init /\ [][Next]_vars

\* Both threads are scheduled; nobody has to press a key.
FairSpec == Spec /\ WF_vars(EngineStep) /\ WF_vars(CallerStep)

----------------------------------------------------------------------------
(* The type invariant: the state of the session, its board and its threads. *)
TypeOK ==
    /\ s \in State
    /\ commands \in Seq(Asked) /\ Len(commands) <= MaxQueue
    /\ running \in BOOLEAN /\ stopping \in BOOLEAN
    /\ engine \in {"none", "lock", "drained", "work", "idle", "out", "left"}
    /\ caller \in [at: {"free", "join", "halt", "load", "play", "sink", "thread"},
                   what: {"stop", "load", "play", "sink"}]

(* The machine writes to the output exactly while no seek runs: every way    *)
(* out of a seek (reached, another song, stop and play) gives it back, and   *)
(* none takes it away outside one (seek(), after_song_start(), begin()).     *)
BackendFollowsSeek ==
    running /\ caller.at # "halt" =>
        (s.backend = "null") = (s.seekTo # 0)

(* A song that plays is heard, and what is not muted is heard as the tune   *)
(* wrote it: after any pause, seek, song change and mute the board's MUTE is *)
(* off and its registers are those of the mirror, unless a mute still waits  *)
(* for the next write. Only a song change that cuts a seek short is left     *)
(* out: the code restores nothing after it (SeekEndsHeard).                  *)
Sounding == running /\ s.playing /\ s.open /\ s.seekTo = 0 /\ ~s.paused /\ ~s.ended
AsWritten == ~s.mute /\ \A c \in Chips \ (s.chipMute \cup s.voiceMute \cup s.pending) :
                           s.wire[c] = s.mirror[c]
HeardAsWritten == Sounding /\ ~s.cut => AsWritten

(* A command is run in the playback it was given in or not at all: none is   *)
(* left waiting in a stopped session (stop(), run_or_queue()).               *)
NothingLeftWaiting == ~running /\ caller.at # "halt" => commands = <<>>

(* stop(), and every call that begins with it, returns: the engine thread    *)
(* sees the flag although the notification may come before it waits.         *)
StopReturns == (caller.at # "free") ~> (caller.at = "free")

(* "Hold a whole chip silent, dropping its writes" (set_chip_mute()): a      *)
(* muted chip stays silent once its mute has been applied. restore() writes  *)
(* the mirror of every chip.                                                 *)
MutedStaysSilent == \A c \in s.chipMute \ s.pending : ~Heard(s, c)

(* "Silence the output for a pause or seek": a paused board gives no sound.  *)
(* held_ stays set when a song change unmutes the board.                     *)
PausedIsSilent == running /\ s.paused => s.mute \/ \A c \in Chips : ~Heard(s, c)

(* "Restore the sound after silence() from the register file": a song that   *)
(* plays is heard, also after a seek that another song cut short.            *)
SeekEndsHeard == Sounding => AsWritten

(* "Stop the engine and silence the output": when stop() has returned the    *)
(* board gives no sound.                                                     *)
StoppedIsSilent ==
    caller.at = "free" /\ ~running => s.mute \/ \A c \in Chips : ~Heard(s, c)

(* The backend the machine writes to is alive whenever the session lets the  *)
(* player call it (player_.stop() flushes it).                               *)
BackendIsAlive == At("halt") => s.backend # "gone"
=============================================================================
