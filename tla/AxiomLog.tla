------------------------------ MODULE AxiomLog ------------------------------
(***************************************************************************)
(* internal/axiomlog and the end of main: every log line also goes into a  *)
(* buffer that a background loop posts to Axiom, on a ticker or early when *)
(* a batch is full.  slog holds its handler's lock around Write, so there  *)
(* is one writer at a time; the loop and Close may post at the same time.  *)
(* Lines are numbered as they are written; a buffer is the set of them.   *)
(***************************************************************************)
EXTENDS Integers, FiniteSets

CONSTANTS
    MaxBatch,   \* maxBatchEvents
    MaxBuffer,  \* maxBufferBytes, in lines
    MaxLines    \* bound on the lines written

ASSUME AxiomAssumption ==
    /\ MaxBatch \in Nat \ {0}
    /\ MaxBuffer \in Nat /\ MaxBatch <= MaxBuffer
    /\ MaxLines \in Nat

VARIABLES
    logged,     \* how many lines have been written
    batch,      \* the lines in the buffer
    kicking,    \* Write has seen a full batch and is about to kick
    kick,       \* the kick channel, capacity one
    tick,       \* a tick waits in ticker.C
    loop,       \* flushLoop: "select" | "flush" | "posting" | "returned"
    inLoop,     \* the lines it is posting
    main,       \* main: "serving" | "closing" | "posting" | "closed" | "exited"
    inMain,     \* the lines Close is posting
    delivered, failed, dropped,     \* history: what became of a line
    before      \* history: the lines written before Close was called

vars == <<logged, batch, kicking, kick, tick, loop, inLoop, main, inMain,
          delivered, failed, dropped, before>>
writerVars == <<logged, kicking, dropped>>
loopVars == <<loop, inLoop>>
mainVars == <<main, inMain, before>>

Running == main # "exited"

-----------------------------------------------------------------------------
(* Write *)

Fits == Cardinality(batch) + 1 <= MaxBuffer

\* The locked section: a line that does not fit is not buffered.
Write ==
    /\ Running
    /\ ~kicking /\ logged < MaxLines
    /\ logged' = logged + 1
    /\ IF Fits THEN batch' = batch \cup {logged'} /\ UNCHANGED dropped
       ELSE dropped' = dropped \cup {logged'} /\ UNCHANGED batch
    /\ kicking' = (Cardinality(batch') >= MaxBatch)
    /\ UNCHANGED <<kick, tick, loopVars, mainVars, delivered, failed>>

\* Mutant of Kick: the channel has no buffer.
Kick_Unbuffered ==
    /\ Running
    /\ kicking
    /\ kicking' = FALSE
    /\ kick' = (kick \/ loop = "select")
    /\ UNCHANGED <<logged, batch, tick, loopVars, mainVars, delivered, failed, dropped>>

\* The non-blocking send.
Kick ==
    /\ Running
    /\ kicking
    /\ kicking' = FALSE
    /\ kick' = TRUE
    /\ UNCHANGED <<logged, batch, tick, loopVars, mainVars, delivered, failed, dropped>>

-----------------------------------------------------------------------------
(* flushLoop *)

TickerFires ==
    /\ Running
    /\ ~tick
    /\ tick' = TRUE
    /\ UNCHANGED <<logged, batch, kicking, kick, loopVars, mainVars, delivered, failed, dropped>>

\* The select takes a tick or a kick and calls flush, or sees stop.
LoopSelect ==
    /\ Running
    /\ loop = "select"
    /\ \/ tick /\ tick' = FALSE /\ loop' = "flush" /\ UNCHANGED kick
       \/ kick /\ kick' = FALSE /\ loop' = "flush" /\ UNCHANGED tick
       \/ main # "serving" /\ loop' = "returned" /\ UNCHANGED <<tick, kick>>
    /\ UNCHANGED <<logged, batch, kicking, inLoop, mainVars, delivered, failed, dropped>>

\* Mutant of Remaining: the buffer is copied and not reset.
Remaining_All == batch

\* What flush leaves in the buffer: batch.Reset in the locked section.
Remaining == {}

\* Mutant of LoopTake: the batch size is tested here and not only in Write.
LoopTake_FullOnly ==
    LET out == IF Cardinality(batch) < MaxBatch THEN {} ELSE batch IN
    /\ Running
    /\ loop = "flush"
    /\ inLoop' = out
    /\ batch' = batch \ out
    /\ loop' = IF out = {} THEN "select" ELSE "posting"
    /\ UNCHANGED <<logged, kicking, kick, tick, mainVars, delivered, failed, dropped>>

\* flush's locked section, in the loop.
LoopTake ==
    /\ Running
    /\ loop = "flush"
    /\ inLoop' = batch
    /\ batch' = Remaining
    /\ loop' = IF batch = {} THEN "select" ELSE "posting"
    /\ UNCHANGED <<logged, kicking, kick, tick, mainVars, delivered, failed, dropped>>

\* The POST is answered, or fails, or its ten seconds are over.
LoopPosted ==
    /\ Running
    /\ loop = "posting"
    /\ loop' = "select"
    /\ inLoop' = {}
    /\ \/ delivered' = delivered \cup inLoop /\ UNCHANGED failed
       \/ failed' = failed \cup inLoop /\ UNCHANGED delivered
    /\ UNCHANGED <<batch, writerVars, kick, tick, mainVars>>

-----------------------------------------------------------------------------
(* Shutdown *)

\* Close: close(w.stop).
Close ==
    /\ main = "serving"
    /\ main' = "closing"
    /\ before' = 1..logged
    /\ UNCHANGED <<batch, writerVars, kick, tick, loopVars, inMain, delivered, failed>>

\* Mutant of CloseTake: Close only stops the loop.
CloseTake_Skips ==
    /\ main = "closing"
    /\ main' = "closed"
    /\ UNCHANGED <<batch, writerVars, kick, tick, loopVars, inMain, before, delivered, failed>>

\* Close: flush's locked section.
CloseTake ==
    /\ main = "closing"
    /\ inMain' = batch
    /\ batch' = Remaining
    /\ main' = IF batch = {} THEN "closed" ELSE "posting"
    /\ UNCHANGED <<writerVars, kick, tick, loopVars, before, delivered, failed>>

ClosePosted ==
    /\ main = "posting"
    /\ main' = "closed"
    /\ inMain' = {}
    /\ \/ delivered' = delivered \cup inMain /\ UNCHANGED failed
       \/ failed' = failed \cup inMain /\ UNCHANGED delivered
    /\ UNCHANGED <<batch, writerVars, kick, tick, loopVars, before>>

\* main returns: every other goroutine ends where it is.
Exit ==
    /\ main = "closed"
    /\ main' = "exited"
    /\ UNCHANGED <<batch, writerVars, kick, tick, loopVars, inMain, before, delivered, failed>>

-----------------------------------------------------------------------------
Init ==
    /\ logged = 0 /\ batch = {} /\ kicking = FALSE
    /\ kick = FALSE /\ tick = FALSE
    /\ loop = "select" /\ inLoop = {}
    /\ main = "serving" /\ inMain = {}
    /\ delivered = {} /\ failed = {} /\ dropped = {}
    /\ before = {}

Next ==
    \/ Write
    \/ Kick
    \/ TickerFires
    \/ LoopSelect
    \/ LoopTake
    \/ LoopPosted
    \/ Close
    \/ CloseTake
    \/ ClosePosted
    \/ Exit

Spec == Init /\ [][Next]_vars

\* A goroutine that logs gets its turn. 
WriterRuns == WF_vars(Kick)

\* The loop gets its turn and its POSTs end.
LoopRuns == WF_vars(LoopSelect \/ LoopTake \/ LoopPosted)

TickerRuns == WF_vars(TickerFires)

FairSpec == Spec /\ WriterRuns

-----------------------------------------------------------------------------
(* Properties *)

Lines == 1..logged

\* Types, and the bound on memory while Axiom is down.
TypeOK ==
    /\ logged \in 0..MaxLines
    /\ batch \subseteq Lines /\ Cardinality(batch) <= MaxBuffer
    /\ kicking \in BOOLEAN /\ kick \in BOOLEAN /\ tick \in BOOLEAN
    /\ loop \in {"select", "flush", "posting", "returned"}
    /\ main \in {"serving", "closing", "posting", "closed", "exited"}
    /\ inLoop \subseteq Lines /\ inMain \subseteq Lines
    /\ delivered \subseteq Lines /\ failed \subseteq Lines /\ dropped \subseteq Lines
    /\ before \subseteq Lines

Places == <<batch, inLoop, inMain, delivered, failed, dropped>>

\* No line is lost between the buffer and a POST and none is posted twice,
\* whatever the loop, Close and the writer do at the same time (lines 77-80,
\* 116-126): every line is in exactly one place, and while Axiom is down those in
\* the buffer never exceed its bound.
EveryLineOnce ==
    /\ Cardinality(batch) <= MaxBuffer
    /\ \A n \in Lines : \E i \in DOMAIN Places :
            n \in Places[i] /\ \A j \in DOMAIN Places \ {i} : n \notin Places[j]

\* When the process ends, what was logged before Close was called has been
\* posted or dropped, except for what the loop still had on the wire.
CloseLeavesOnlyTheWire ==
    ~Running => before \subseteq delivered \cup failed \cup dropped \cup inLoop

\* A full batch goes out without the ticker's help, if the loop runs: the kick is
\* not lost when it is sent while the loop is busy (lines 81-88, 106-109).
FullBatchGoes ==
    LoopRuns =>
        (Cardinality(batch) >= MaxBatch)
            ~> (Cardinality(batch) < MaxBatch \/ main # "serving")

\* If the ticker runs too, no line stays in the buffer for ever.
LinesLeave ==
    LoopRuns /\ TickerRuns =>
        \A n \in 1..MaxLines : (n \in batch) ~> (n \notin batch \/ main # "serving")
=============================================================================
