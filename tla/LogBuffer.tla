----------------------------- MODULE LogBuffer -----------------------------
(***************************************************************************)
(* log_buffer.go and log_manager.go: the last lines of each channel's      *)
(* process, in a ring (of 500, here Cap) that is made on the first Append  *)
(* or Read of the channel and never given up.  Appends and reads hold the  *)
(* lock of the ring, so each is one step.  Places start at 0 as in Go.     *)
(*                                                                         *)
(* Operators named after a mistake (NewestIsLast, ...) are faulty variants *)
(* of the one that follows; no specification uses them.                    *)
(***************************************************************************)
EXTENDS Integers, Sequences

CONSTANTS Channels,
          Cap,       \* the 500 of logBuffer
          MaxLines   \* bound on the lines of a channel

ASSUME CapAssumption == Cap \in Nat \ {0}

VARIABLES bufs,     \* channel id -> ring
          appended  \* history, per channel: how many lines there were

logVars == <<bufs, appended>>

\* The lines of a channel are numbered; 0 is an entry not written yet.
NewBuffer == [entries |-> [k \in 0 .. Cap - 1 |-> 0], head |-> 0, size |-> 0, full |-> FALSE]

LogsInit == bufs = <<>> /\ appended = [c \in Channels |-> 0]

-----------------------------------------------------------------------------
Get(c) == IF c \in DOMAIN bufs THEN bufs[c] ELSE NewBuffer
Stored(c, b) == [d \in DOMAIN bufs \union {c} |-> IF d = c THEN b ELSE bufs[d]]

AfterAppend(b, line) ==
  [entries |-> [b.entries EXCEPT ![b.head] = line],
   head |-> (b.head + 1) % Cap,
   size |-> IF b.full THEN b.size ELSE b.size + 1,
   full |-> b.full \/ b.size + 1 = Cap]

AppendLine(c) ==
  /\ appended[c] < MaxLines
  /\ appended' = [appended EXCEPT ![c] = @ + 1]
  /\ bufs' = Stored(c, AfterAppend(Get(c), appended[c] + 1))

\* A request for the logs of a channel that never ran makes a ring as well.
OpenLogs(c) ==
  /\ c \notin DOMAIN bufs
  /\ bufs' = Stored(c, NewBuffer)
  /\ UNCHANGED appended

\* The place before head is the newest one, also before the first wrap, if
\* it is not reduced modulo Cap.
NewestIsLast(b) == b.size - 1
Newest(b) == IF b.full THEN (b.head - 1 + Cap) % Cap ELSE b.size - 1

ReadLines(b, lines) ==
  LET wanted == IF lines <= 0 \/ lines > Cap THEN Cap ELSE lines
      n == IF b.size > wanted THEN wanted ELSE b.size
  IN  [k \in 1 .. n |-> b.entries[(Newest(b) - (k - 1) + Cap) % Cap]]

LogsNext == \E c \in Channels : AppendLine(c) \/ OpenLogs(c)

LogsSpec == LogsInit /\ [][LogsNext]_logVars

-----------------------------------------------------------------------------
(* However often the ring has wrapped, a read gives the newest lines, the  *)
(* newest first, none twice and none skipped, as many as were asked for if *)
(* there were that many and the ring still holds them.                     *)
ReadIsNewest ==
  \A c \in Channels, lines \in -1 .. Cap + 1 :
    LET answer == ReadLines(Get(c), lines)
        wanted == IF lines \in 1 .. Cap THEN lines ELSE Cap
    IN  /\ Len(answer) = IF appended[c] < wanted THEN appended[c] ELSE wanted
        /\ \A k \in DOMAIN answer : answer[k] = appended[c] - (k - 1)

=============================================================================
