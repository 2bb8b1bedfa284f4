------------------------------ MODULE EventLog ------------------------------
(***************************************************************************)
(* The event log (events.rs): a ring in memory, a bounded queue to one     *)
(* writing task, a file per day, and a switch that is kept as a marker     *)
(* file.  Events come from everywhere and may not be held up, so whatever  *)
(* cannot be queued or written is counted instead.                         *)
(*                                                                         *)
(* Simplifications:                                                        *)
(*  - An event is its place in the whole history; seq is its place in the  *)
(*    counting of this process.  Levels, filters and redaction are left    *)
(*    out; every event is one that goes to disk, but the notice of a full  *)
(*    day.                                                                 *)
(*  - A line is one unit of a day's file.  Old days are removed before a   *)
(*    process reads the rest, so the days of the model are the kept ones.  *)
(***************************************************************************)
EXTENDS Integers, Sequences, FiniteSets, SequencesExt

CONSTANTS RingSize,      \* RING_CAPACITY
          QueueSize,     \* CHANNEL_CAPACITY
          DayLines,      \* MAX_FILE_BYTES, in lines
          Switchers,     \* BOUND: requests that switch the recording, each once
          LastDay,       \* BOUND: days
          MaxRecorded,   \* BOUND: events
          MaxLogFaults,  \* BOUND: failing calls
          MaxProcesses   \* BOUND: processes, one after the other

ASSUME LogAssumption ==
  {RingSize, QueueSize, DayLines, LastDay, MaxRecorded, MaxProcesses} \subseteq Nat \ {0}
  /\ MaxLogFaults \in Nat

VARIABLES
  ring, nextSeq, dropped, recording,  \* Inner: what is in memory, enabled
  queue, input,                       \* the channel to the writer; whether it still takes events
  writer,                             \* the task: where it is, its event, the day open, the day full
  days,                               \* per day the lines of its file
  torn,                               \* days whose file ends within a line
  marker,                             \* the file that says the recording is off
  switches,                           \* set_enabled: per request where it is
  today, process, logFaults,
  sent, skipped, spoiled, crossing    \* auxiliary: the process of each event; events not written as
                                      \* the day was full, and run into a torn line; whether two
                                      \* switches met, or a marker could not be changed

logVars == <<ring, nextSeq, dropped, recording, queue, input, writer, days, torn, marker, switches,
             today, process, logFaults, sent, skipped, spoiled, crossing>>
memoryVars == <<ring, nextSeq, dropped, recording>>
diskVars == <<days, torn, skipped, spoiled>>
ghostVars == <<today, process, crossing>>

NoEvent == [id |-> 0, kind |-> "none", day |-> 0, seq |-> 0]
Recorded == [id : 0 .. MaxRecorded, kind : {"plain", "off", "on", "full"}, day : 1 .. LastDay,
             seq : Nat]
StartingWriter == [at |-> "wait", event |-> NoEvent, open |-> 0, full |-> 0]
NoSwitch == [at |-> "idle", on |-> TRUE]
OnDisk == UNION {{days[d][i].id : i \in DOMAIN days[d]} : d \in 1 .. LastDay}

LogTypeOK ==
  /\ ring \in Seq(Recorded) /\ Len(ring) <= RingSize
  /\ queue \in Seq(Recorded) /\ Len(queue) <= QueueSize
  /\ nextSeq \in Nat /\ dropped \in Nat /\ {recording, input, marker, crossing} \subseteq BOOLEAN
  /\ writer \in [at : {"wait", "take", "write", "flush", "off"}, event : Recorded \cup {NoEvent},
                 open : 0 .. LastDay, full : 0 .. LastDay]
  /\ days \in [1 .. LastDay -> Seq(Recorded)] /\ torn \subseteq 1 .. LastDay
  /\ switches \in [Switchers -> [at : {"idle", "says", "flag", "mark", "said", "over"}, on : BOOLEAN]]
  /\ today \in 1 .. LastDay /\ process \in 1 .. MaxProcesses /\ logFaults \in 0 .. MaxLogFaults

LogInit ==
  /\ ring = <<>> /\ nextSeq = 0 /\ dropped = 0 /\ recording = TRUE
  /\ queue = <<>> /\ input = TRUE /\ writer = StartingWriter
  /\ days = [d \in 1 .. LastDay |-> <<>>] /\ torn = {} /\ marker = FALSE
  /\ switches = [s \in Switchers |-> NoSwitch]
  /\ today = 1 /\ process = 1 /\ logFaults = MaxLogFaults
  /\ sent = <<>> /\ skipped = {} /\ spoiled = {} /\ crossing = FALSE

LogBreaks == logFaults > 0 /\ logFaults' = logFaults - 1
LogWorks == UNCHANGED logFaults
\* A variant: the oldest event stays in the ring.
KeepsAll(s, n) == s
LastOf(s, n) == IF Len(s) <= n THEN s ELSE SubSeq(s, Len(s) - n + 1, Len(s))

---------------------------------------------------------------------------
\* record_inner: the ring and the queue, under one mutex.
Recorder(kind) == [id |-> Len(sent) + 1, kind |-> kind, day |-> today, seq |-> nextSeq + 1]
\* A variant: what does not fit into the queue is not counted.
FullIsForgotten == dropped
FullIsCounted == dropped + 1
Record(kind) ==
  LET e == Recorder(kind) IN
  /\ Len(sent) < MaxRecorded
  /\ nextSeq' = nextSeq + 1 /\ ring' = LastOf(Append(ring, e), RingSize)
  /\ sent' = Append(sent, process)
  /\ IF input /\ Len(queue) < QueueSize
     THEN queue' = Append(queue, e) /\ UNCHANGED dropped
     ELSE dropped' = FullIsCounted /\ UNCHANGED queue

Emit ==
  /\ recording /\ Record("plain")
  /\ LogWorks /\ UNCHANGED <<recording, input, writer, diskVars, marker, switches, ghostVars>>

\* set_enabled: the record of a switch is forced, before it is turned off and after it is
\* turned on; flag and marker are changed one after the other, and a marker that
\* cannot be changed is only reported.
Switching(s) == switches[s].at \notin {"idle", "over"}
SwitchGoes(s, at) == switches' = [switches EXCEPT ![s].at = at]
SwitchBegins(s) ==
  /\ switches[s].at = "idle"
  /\ \E on \in BOOLEAN :
       switches' = [switches EXCEPT ![s] = [at |-> IF on THEN "flag" ELSE "says", on |-> on]]
  /\ crossing' = (crossing \/ \E r \in Switchers : Switching(r))
  /\ LogWorks
  /\ UNCHANGED <<memoryVars, queue, input, writer, diskVars, marker, today, process, sent>>
SwitchSays(s) ==
  /\ switches[s].at \in {"says", "said"}
  /\ Record(IF switches[s].on THEN "on" ELSE "off")
  /\ SwitchGoes(s, IF switches[s].on THEN "over" ELSE "flag")
  /\ LogWorks /\ UNCHANGED <<recording, input, writer, diskVars, marker, ghostVars>>
SwitchFlag(s) ==
  /\ switches[s].at = "flag"
  /\ recording' = switches[s].on /\ SwitchGoes(s, "mark")
  /\ LogWorks
  /\ UNCHANGED <<ring, nextSeq, dropped, queue, input, writer, diskVars, marker, ghostVars, sent>>
SwitchMark(s) ==
  /\ switches[s].at = "mark"
  /\ \/ LogWorks /\ marker' = ~switches[s].on /\ UNCHANGED crossing
     \/ LogBreaks /\ UNCHANGED marker /\ crossing' = TRUE
  /\ SwitchGoes(s, IF switches[s].on THEN "said" ELSE "over")
  /\ UNCHANGED <<memoryVars, queue, input, writer, diskVars, today, process, sent>>

---------------------------------------------------------------------------
\* writer: one event at a time, to the file of the event's own day.
WriterWaits == writer' = [writer EXCEPT !.at = "wait", !.event = NoEvent]
\* note_write_drop; the file is opened again for the next event.
Drops == dropped' = dropped + 1 /\ UNCHANGED <<ring, nextSeq, recording>>
Reopens == writer' = [writer EXCEPT !.at = "wait", !.event = NoEvent, !.open = 0]
Takes ==
  /\ writer.at = "wait" /\ queue # <<>>
  /\ queue' = Tail(queue)
  /\ writer' = [writer EXCEPT !.at = "take", !.event = Head(queue)]
  /\ LogWorks /\ UNCHANGED <<memoryVars, input, diskVars, marker, switches, ghostVars, sent>>
OpensDay ==
  /\ writer.at = "take" /\ writer.open # writer.event.day
  /\ \/ /\ LogWorks /\ UNCHANGED dropped
        /\ writer' = [writer EXCEPT !.open = writer.event.day, !.full = 0]
     \/ LogBreaks /\ dropped' = dropped + 1 /\ WriterWaits
  /\ UNCHANGED <<ring, nextSeq, recording, queue, input, diskVars, marker, switches, ghostVars, sent>>
Lines(d) == Len(days[d]) + Cardinality({d} \cap torn)
DayFull == writer.at = "take" /\ writer.open = writer.event.day /\ Lines(writer.open) >= DayLines
\* emit_memory_only, once a day; the rest of the day is skipped without a count.
SkipsFull ==
  /\ DayFull
  /\ writer' = [writer EXCEPT !.at = "wait", !.event = NoEvent, !.full = writer.open]
  /\ skipped' = skipped \cup {writer.event.id}
  /\ IF writer.full # writer.open /\ recording
     THEN /\ nextSeq' = nextSeq + 1
          /\ ring' = LastOf(Append(ring, [id |-> 0, kind |-> "full", day |-> today, seq |-> nextSeq + 1]),
                            RingSize)
     ELSE UNCHANGED <<ring, nextSeq>>
  /\ LogWorks
  /\ UNCHANGED <<dropped, recording, queue, input, days, torn, spoiled, marker, switches, ghostVars, sent>>
\* A line behind a torn one cannot be read; the torn one ends with it.
WritesLine ==
  /\ writer.at = "take" /\ writer.open = writer.event.day /\ ~DayFull
  /\ LET d == writer.open IN
     \/ /\ LogWorks /\ writer' = [writer EXCEPT !.at = "flush"] /\ UNCHANGED <<dropped, skipped>>
        /\ IF d \in torn
           THEN torn' = torn \ {d} /\ spoiled' = spoiled \cup {writer.event.id} /\ UNCHANGED days
           ELSE days' = [days EXCEPT ![d] = Append(@, writer.event)] /\ UNCHANGED <<torn, spoiled>>
     \/ /\ LogBreaks /\ dropped' = dropped + 1 /\ Reopens
        /\ torn' \in {torn, torn \cup {d}} /\ UNCHANGED <<days, skipped, spoiled>>
  /\ UNCHANGED <<ring, nextSeq, recording, queue, input, marker, switches, ghostVars, sent>>
Flushes ==
  /\ writer.at = "flush"
  /\ \/ LogWorks /\ WriterWaits /\ UNCHANGED dropped
     \/ LogBreaks /\ Reopens /\ dropped' = dropped + 1
  /\ UNCHANGED <<ring, nextSeq, recording, queue, input, diskVars, marker, switches, ghostVars, sent>>

\* drain_writer: the input is closed, what is queued is written, within the budget.
Drains ==
  /\ input /\ input' = FALSE
  /\ LogWorks /\ UNCHANGED <<memoryVars, queue, writer, diskVars, marker, switches, ghostVars, sent>>
DrainsOut == ~input /\ (queue = <<>> /\ writer.at = "wait")
\* The process ends, drained or not, and the next one reads the marker and the days.
Restarts ==
  /\ process < MaxProcesses /\ process' = process + 1
  /\ IF DrainsOut THEN LogWorks ELSE LogBreaks
  /\ LET kept == LastOf(FlattenSeq(days), RingSize) IN
     /\ ring' = [i \in DOMAIN kept |-> [kept[i] EXCEPT !.seq = i]]
     /\ nextSeq' = Len(kept)
  /\ dropped' = 0 /\ recording' = ~marker /\ queue' = <<>> /\ input' = TRUE /\ writer' = StartingWriter
  /\ switches' = [s \in Switchers |-> IF Switching(s) THEN [switches[s] EXCEPT !.at = "over"] ELSE switches[s]]
  /\ UNCHANGED <<diskVars, marker, today, sent, crossing>>

DayEnds ==
  /\ today < LastDay /\ today' = today + 1
  /\ LogWorks
  /\ UNCHANGED <<memoryVars, queue, input, writer, diskVars, marker, switches, process, sent, crossing>>

LogNext ==
  \/ Emit \/ Takes \/ OpensDay \/ SkipsFull \/ WritesLine \/ Flushes \/ Drains \/ Restarts \/ DayEnds
  \/ \E s \in Switchers : SwitchBegins(s) \/ SwitchSays(s) \/ SwitchFlag(s) \/ SwitchMark(s)
LogSpec == LogInit /\ [][LogNext]_logVars

---------------------------------------------------------------------------
\* What this process recorded is in the files, on its way there, or counted as dropped:
\* whatever fails, however fast the events come, whenever the input is closed.  Two kinds
\* of line are lost without a count (see the README): those of a day that is full, and one
\* that is appended to a torn line.
OnItsWay == {queue[i].id : i \in DOMAIN queue} \cup {writer.event.id}
Unwritten == {id \in DOMAIN sent : sent[id] = process} \ (OnDisk \cup OnItsWay \cup skipped \cup spoiled)
LossesCounted == Cardinality(Unwritten) <= dropped

\* Between switches, one at a time and each able to change its file, the marker is what
\* the flag is: the next process records exactly if this one did.
SwitchIsKept ==
  crossing \/ (\E s \in Switchers : Switching(s)) \/ marker = ~recording

EventsAccounted == LossesCounted /\ SwitchIsKept
=============================================================================
