------------------------------ MODULE KernelLog ------------------------------
(***************************************************************************)
(* The kernel's transition log and everyone who touches the file:          *)
(*   - `knomosis process`, spawned by the host for every request           *)
(*     (CommandKernel.submit), and the operator's `knomosis bootstrap` and  *)
(*     `knomosis snapshot`: all three load the log, cut a torn tail off,   *)
(*     and replay it (Main.lean, Loop.lean, LogFile.lean);                 *)
(*   - `knomosis replay-up-to`, the observer's truth oracle, which reads;  *)
(*   - the tail reader and the extractor of the event server (tail.rs).    *)
(* A process may be killed at any point of its work: by the host's         *)
(* timeout, with the machine, or - for the host itself - leaving the       *)
(* command it spawned to run on.                                           *)
(*                                                                         *)
(* An entry chains to its predecessor by hash and records the hash of the  *)
(* state after it. Hashes are taken as injective, so an entry is the       *)
(* history it commits to: the sequence of actions up to and including its  *)
(* own. The file is a sequence of cells <<h, i>>, the i-th piece of the    *)
(* frame of the entry h: magic, length, payload pieces, trailer.           *)
(***************************************************************************)
EXTENDS Integers, Sequences, FiniteSets, SequencesExt

CONSTANTS
    Action,        \* signed actions
    PayloadLen,    \* [Action -> 1 ..]: the pieces of an entry's payload
    Slot,          \* at most Cardinality(Slot) knomosis commands run at a time
    Budgeted,      \* the deployment has a configuration to record in a sidecar
    Budgets,       \* bounds: requests served, operator's commands run, and timeouts,
                   \* host crashes and power losses met, in one behaviour
    Idle           \* no command in this slot

ASSUME KernelLogAssumption ==
    /\ PayloadLen \in [Action -> Nat \ {0}]
    /\ Budgeted \in BOOLEAN
    /\ Budgets \subseteq [requests : Nat, commands : Nat, faults : Nat]

VARIABLES
    file,      \* the cells on disk
    sidecar,   \* "absent", "torn" or "written"
    proc,      \* [Slot -> the command running there]
    child,     \* the slot the host waits on, or Idle
    host,      \* "up" or "down"
    told,      \* the histories an Ok verdict, a snapshot or the oracle has vouched for
    tail,      \* the tail reader
    streamed,  \* the history the extractor has emitted the events of
    left,      \* what is left of the budget
    power      \* the power has failed

vars == <<file, sidecar, proc, child, host, told, tail, streamed, left, power>>

------------------------------------------------------------------------------
(* The frame format (LogFile.lean).                                         *)
HeaderLen == 2
TrailerLen == 1

FrameWidth(h) == HeaderLen + PayloadLen[Last(h)] + TrailerLen
MaxWidth == HeaderLen + TrailerLen + Max({PayloadLen[a] : a \in Action})
EncodeFrame(h) == [i \in 1 .. FrameWidth(h) |-> <<h, i>>]

\* The width the length field declares; bytes of another kind read as a length
\* far beyond any frame.
DeclaredWidth(cell) == IF cell[2] = 2 THEN FrameWidth(cell[1]) ELSE MaxWidth + 1

DecodeFrameAt(f, off) ==
    CASE off + 1 > Len(f) -> "truncated"
      [] off + 1 <= Len(f) /\ f[off + 1][2] # 1 -> "badMagic"
      [] OTHER ->
         IF off + HeaderLen > Len(f) \/ off + DeclaredWidth(f[off + 2]) > Len(f) THEN "truncated"
         ELSE IF SubSeq(f, off + 1, off + DeclaredWidth(f[off + 2])) # EncodeFrame(f[off + 2][1])
              THEN "badTrailer"
              ELSE "ok"

\* The complete frames from the front, where they end, and what stopped the
\* reading ("ok": the end of the file).
RECURSIVE DecodeFrom(_, _, _)
DecodeFrom(f, off, acc) ==
    IF off >= Len(f) THEN [entries |-> acc, consumed |-> off, err |-> "ok"]
    ELSE IF DecodeFrameAt(f, off) = "ok"
         THEN DecodeFrom(f, off + FrameWidth(f[off + 2][1]), Append(acc, f[off + 2][1]))
         ELSE [entries |-> acc, consumed |-> off, err |-> DecodeFrameAt(f, off)]

ReadAllEntries == DecodeFrom(file, 0, <<>>)

\* The kernel refuses an action whose nonce is spent.
Admissible(h, a) == a \notin ToSet(h)

\* replayFromSeedWith: every entry extends the one before by an admissible action.
ReplayFrom(seed, entries) ==
    \A i \in DOMAIN entries :
        LET before == IF i = 1 THEN seed ELSE entries[i - 1] IN
        Front(entries[i]) = before /\ Admissible(before, Last(entries[i]))

HistoryOf(entries) == IF entries = <<>> THEN <<>> ELSE Last(entries)
LogHistory == HistoryOf(ReadAllEntries.entries)

------------------------------------------------------------------------------
(* The commands: Main.lean.                                                 *)
Spend(what) == left[what] > 0 /\ left' = [left EXCEPT ![what] = @ - 1]

Start(cmd, arg) == [cmd |-> cmd, arg |-> arg, pc |-> "sidecar?", entries |-> <<>>, cut |-> 0, done |-> 0]

At(s, pc) == proc[s] # Idle /\ proc[s].pc = pc
Go(s, pc) == proc' = [proc EXCEPT ![s].pc = pc]

\* checkConsistent, for the three sidecars: a torn one does not decode.
CheckConsistent(s) ==
    /\ At(s, "sidecar?")
    /\ Go(s, IF sidecar = "torn" THEN "exit2" ELSE "load")
    /\ UNCHANGED <<file, sidecar, child, host, told, tail, streamed, left, power>>

\* bootstrapFromSnapshot: the log still holds the entry the snapshot was taken at,
\* and only the entries after it are replayed.
Anchored(entries, h) == h = <<>> \/ (Len(h) <= Len(entries) /\ entries[Len(h)] = h)

\* The replay of what was read, and what the command does next.
Replayed(cmd, arg, entries) ==
    LET ok == IF cmd = "restore"
              THEN /\ Anchored(entries, arg)
                   /\ ReplayFrom(arg, SubSeq(entries, Len(arg) + 1, Len(entries)))
              ELSE ReplayFrom(<<>>, entries)
    IN  IF ~ok THEN "bootstrapFailed"
        ELSE [process |-> "writeSidecar", snapshot |-> "save",
              bootstrap |-> "exit0", restore |-> "exit0"][cmd]

\* loadAndTruncate reads the whole file.
Load(s) ==
    /\ At(s, "load")
    /\ LET r == ReadAllEntries IN
       proc' = [proc EXCEPT ![s].entries = r.entries, ![s].cut = r.consumed,
                            ![s].pc = IF r.err = "ok" THEN Replayed(proc[s].cmd, proc[s].arg, r.entries)
                                      ELSE "truncate"]
    /\ UNCHANGED <<file, sidecar, child, host, told, tail, streamed, left, power>>

\* The tail reader is between the steps of one poll; tail.cuts counts the
\* truncations since it began.
InPoll == tail.pc \in {"header", "payload", "trailer"}

\* Faulty: the torn tail is left, and appended to.
TruncatedToNoEffect(f, len) == f

\* Faulty: the cut reaches into the last complete frame.
TruncatedToOneLess(f, len) == SubSeq(f, 1, IF len = 0 THEN 0 ELSE len - 1)

\* truncateFile: a file already shorter than the cut is left alone.
TruncatedTo(f, len) == IF Len(f) < len THEN f ELSE SubSeq(f, 1, len)

Truncate(s) ==
    /\ At(s, "truncate")
    /\ file' = TruncatedTo(file, proc[s].cut)
    /\ Go(s, Replayed(proc[s].cmd, proc[s].arg, proc[s].entries))
    /\ tail' = IF InPoll THEN [tail EXCEPT !.cuts = @ + 1] ELSE tail
    /\ UNCHANGED <<sidecar, child, host, told, streamed, left, power>>

\* processSignedActionWith, up to the append.
Applied(s) ==
    IF Admissible(HistoryOf(proc[s].entries), proc[s].arg) THEN "append" ELSE "exit1"

\* writeSidecarIfAbsent creates the file, then writes it.
WriteSidecar(s) ==
    /\ At(s, "writeSidecar")
    /\ IF Budgeted /\ sidecar = "absent"
       THEN sidecar' = "torn" /\ Go(s, "fillSidecar")
       ELSE sidecar' = sidecar /\ Go(s, Applied(s))
    /\ UNCHANGED <<file, child, host, told, tail, streamed, left, power>>

FillSidecar(s) ==
    /\ At(s, "fillSidecar")
    /\ sidecar' = "written"
    /\ Go(s, Applied(s))
    /\ UNCHANGED <<file, child, host, told, tail, streamed, left, power>>

NewEntry(s) == Append(HistoryOf(proc[s].entries), proc[s].arg)

\* appendEntry: the frame reaches the end of the file piece by piece.
AppendPiece(s) ==
    /\ At(s, "append")
    /\ file' = Append(file, <<NewEntry(s), proc[s].done + 1>>)
    /\ proc' = [proc EXCEPT ![s].done = @ + 1,
                            ![s].pc = IF proc[s].done + 1 = FrameWidth(NewEntry(s)) THEN "exit0" ELSE @]
    /\ UNCHANGED <<sidecar, child, host, told, tail, streamed, left, power>>

SaveSnapshot(s) ==
    /\ At(s, "save")
    /\ told' = told \cup {[by |-> "snapshot", history |-> HistoryOf(proc[s].entries)]}
    /\ Go(s, "exit0")
    /\ UNCHANGED <<file, sidecar, child, host, tail, streamed, left, power>>

Exited(s) == proc[s] # Idle /\ proc[s].pc \in {"exit0", "exit1", "exit2", "bootstrapFailed"}

------------------------------------------------------------------------------
(* The host: CommandKernel.submit.                                          *)
NoTail == [pc |-> "poll", offset |-> 0, available |-> 0, width |-> 0, payload |-> <<>>, cuts |-> 0]

HostStart ==
    /\ host = "down"
    /\ host' = "up"
    /\ UNCHANGED <<file, sidecar, proc, child, told, tail, streamed, left, power>>

\* spawn, under spawn_lock.
Submit(s, a) ==
    /\ host = "up" /\ child = Idle /\ proc[s] = Idle
    /\ proc' = [proc EXCEPT ![s] = Start("process", a)]
    /\ child' = s
    /\ Spend("requests")
    /\ UNCHANGED <<file, sidecar, host, told, tail, streamed, power>>

\* wait_with_timeout sees the exit: status 0 is Ok, anything else NotAdmissible.
Reap(s) ==
    /\ child = s /\ Exited(s)
    /\ told' = told \cup IF proc[s].pc = "exit0" THEN {[by |-> "ok", history |-> NewEntry(s)]} ELSE {}
    /\ proc' = [proc EXCEPT ![s] = Idle]
    /\ child' = Idle
    /\ UNCHANGED <<file, sidecar, host, tail, streamed, left, power>>

\* The deadline passes: the command is killed and NotAdmissible answered, even if
\* it exited after the last try_wait.
Timeout(s) ==
    /\ child = s
    /\ proc' = [proc EXCEPT ![s] = Idle]
    /\ child' = Idle
    /\ Spend("faults")
    /\ UNCHANGED <<file, sidecar, host, told, tail, streamed, power>>

\* The host dies; what it spawned runs on.
HostCrash ==
    /\ host = "up"
    /\ host' = "down"
    /\ child' = Idle
    /\ Spend("faults")
    /\ UNCHANGED <<file, sidecar, proc, told, tail, streamed, power>>

\* The machine dies. Nothing is fsynced: any suffix of the log may be lost,
\* and the sidecar's contents.
PowerLoss(n) ==
    /\ file' = SubSeq(file, 1, n)
    /\ proc' = [s \in Slot |-> Idle]
    /\ child' = Idle
    /\ host' = "down"
    /\ tail' = NoTail
    /\ streamed' = <<>>
    /\ Spend("faults") /\ power' = TRUE
    /\ sidecar' \in {sidecar} \cup IF sidecar = "absent" THEN {} ELSE {"absent", "torn"}
    /\ UNCHANGED told

------------------------------------------------------------------------------
(* The operator and the observer's oracle.                                  *)
Operate(s, cmd, arg) ==
    /\ proc[s] = Idle
    /\ proc' = [proc EXCEPT ![s] = Start(cmd, arg)]
    /\ Spend("commands")
    /\ UNCHANGED <<file, sidecar, child, host, told, tail, streamed, power>>

\* The end of an operator's command, or of one whose host is gone.
Ends(s) ==
    /\ Exited(s) /\ child # s
    /\ proc' = [proc EXCEPT ![s] = Idle]
    /\ UNCHANGED <<file, sidecar, child, host, told, tail, streamed, left, power>>

\* cmdReplayUpTo reads beside a running writer and cuts nothing off.
ReplayUpTo(idx) ==
    /\ sidecar # "torn"
    /\ LET entries == ReadAllEntries.entries IN
       /\ idx <= Len(entries) /\ ReplayFrom(<<>>, SubSeq(entries, 1, idx))
       /\ told' = told \cup {[by |-> "oracle", history |-> HistoryOf(SubSeq(entries, 1, idx))]}
    /\ Spend("commands")
    /\ UNCHANGED <<file, sidecar, proc, child, host, tail, streamed, power>>

------------------------------------------------------------------------------
(* The event server's tail reader (poll) and extractor.                     *)
Reads(pc) == tail.pc = pc /\ UNCHANGED <<file, sidecar, proc, child, host, told, left, power>>

Halt == tail' = [NoTail EXCEPT !.pc = "halted"] /\ UNCHANGED streamed

\* Pending, or an I/O error that is retried: the cursor stays where it was.
Again == tail' = [NoTail EXCEPT !.offset = tail.offset] /\ UNCHANGED streamed

\* The length of the file. Fewer bytes than a header past the cursor: Pending.
PollLen ==
    /\ Reads("poll")
    /\ IF Len(file) < tail.offset THEN Halt
       ELSE /\ Len(file) - tail.offset >= HeaderLen
            /\ tail' = [tail EXCEPT !.pc = "header", !.available = Len(file) - tail.offset]
            /\ UNCHANGED streamed

\* Faulty: a frame that ends the file counts as incomplete.
ReadHeaderOffByOne ==
    /\ Reads("header")
    /\ IF tail.offset + HeaderLen > Len(file) THEN Again
       ELSE LET width == DeclaredWidth(file[tail.offset + 2]) IN
            IF file[tail.offset + 1][2] # 1 \/ width > MaxWidth THEN Halt
            ELSE IF tail.available <= width THEN Again
            ELSE tail' = [tail EXCEPT !.pc = "payload", !.width = width] /\ UNCHANGED streamed

\* The file may have shrunk since: read_exact fails and the poll is retried.
ReadHeader ==
    /\ Reads("header")
    /\ IF tail.offset + HeaderLen > Len(file) THEN Again
       ELSE LET width == DeclaredWidth(file[tail.offset + 2]) IN
            IF file[tail.offset + 1][2] # 1 \/ width > MaxWidth THEN Halt
            ELSE IF tail.available < width THEN Again
            ELSE tail' = [tail EXCEPT !.pc = "payload", !.width = width] /\ UNCHANGED streamed

ReadPayload ==
    /\ Reads("payload")
    /\ LET end == tail.offset + tail.width - TrailerLen IN
       IF end > Len(file) THEN Again
       ELSE /\ tail' = [tail EXCEPT !.pc = "trailer",
                                    !.payload = SubSeq(file, tail.offset + HeaderLen + 1, end)]
            /\ UNCHANGED streamed

\* The trailer is the hash of the payload that was read.
TrailerMatches(cell) ==
    Append(tail.payload, cell) = SubSeq(EncodeFrame(cell[1]), HeaderLen + 1, FrameWidth(cell[1]))

\* extract-events: a fresh subprocess checks the sidecar, then every entry is
\* replayed on the state so far; any failure ends the subprocess and the server.
Extracts(h) ==
    /\ streamed = <<>> => sidecar # "torn"
    /\ ReplayFrom(streamed, <<h>>)

ReadTrailer ==
    /\ Reads("trailer")
    /\ IF tail.offset + tail.width > Len(file) THEN Again
       ELSE LET cell == file[tail.offset + tail.width] IN
            IF TrailerMatches(cell) /\ Extracts(cell[1])
            THEN /\ tail' = [NoTail EXCEPT !.offset = tail.offset + tail.width]
                 /\ streamed' = cell[1]
            ELSE Halt

\* The operator restarts a halted server: it reads the log from its start.
ServerRestart ==
    /\ Reads("halted")
    /\ tail' = NoTail
    /\ streamed' = <<>>

------------------------------------------------------------------------------
Init ==
    /\ file = <<>>
    /\ sidecar = "absent"
    /\ proc = [s \in Slot |-> Idle]
    /\ child = Idle
    /\ host = "up"
    /\ told = {}
    /\ tail = NoTail
    /\ streamed = <<>>
    /\ left \in Budgets
    /\ power = FALSE

CommandStep(s) ==
    \/ CheckConsistent(s) \/ Load(s) \/ Truncate(s)
    \/ WriteSidecar(s) \/ FillSidecar(s) \/ AppendPiece(s) \/ SaveSnapshot(s)
    \/ Reap(s) \/ Ends(s)

TailStep == PollLen \/ ReadHeader \/ ReadPayload \/ ReadTrailer \/ ServerRestart

Operator(s) ==
    \/ Operate(s, "bootstrap", <<>>) \/ Operate(s, "snapshot", <<>>)
    \/ \E t \in told : t.by = "snapshot" /\ Operate(s, "restore", t.history)

Next ==
    \/ HostStart \/ HostCrash
    \/ \E s \in Slot : CommandStep(s) \/ Operator(s) \/ Timeout(s) \/ \E a \in Action : Submit(s, a)
    \/ \E n \in 0 .. Len(file) : PowerLoss(n)
    \/ \E idx \in 0 .. Len(LogHistory) : ReplayUpTo(idx)
    \/ TailStep

Spec == Init /\ [][Next]_vars /\ WF_vars(TailStep)

------------------------------------------------------------------------------

\* The log can always be taken up again.  What stops a reader is a torn frame,
\* never a bad magic or trailer, since an append starts only where the last
\* complete frame ends (loadAndTruncate); and whoever bootstraps, killed writers
\* or not, finds a valid chain and, but for lost power, the entry its snapshot
\* was taken at (bootstrapWith, bootstrapFromSnapshotWith).
LogRecovers ==
    /\ ReadAllEntries.err \in {"ok", "truncated"}
    /\ \A s \in Slot : At(s, "bootstrapFailed") => power /\ proc[s].cmd = "restore"

\* The events streamed are those of a prefix of the log; and as long as the
\* machine does not lose power, an action answered Ok, the entries under a
\* snapshot and every state the truth oracle has reported stay in the log.
NothingToldIsLost ==
    /\ IsPrefix(streamed, LogHistory)
    /\ power \/ \A t \in told : IsPrefix(t.history, LogHistory)

\* What is in the log is streamed, unless a torn sidecar locks the extractor out.
LoggedIsStreamed == []<>(sidecar = "torn" \/ streamed = LogHistory)
=============================================================================
