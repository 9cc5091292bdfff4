------------------------------ MODULE AccessLog ------------------------------
(***************************************************************************)
(* The access log to a file (src/src/server/access_log.rs): requests send  *)
(* entries to an unbounded channel; one task takes them out, keeps the     *)
(* most recent ones in a ring for GET /api/logs and writes them through a  *)
(* buffer.                                                                 *)
(***************************************************************************)
EXTENDS Naturals, Sequences, SequencesExt

CONSTANTS
  Entries,   \* the entries logged in a run, each once
  RingSize,  \* RING_SIZE
  BufSize,   \* lines that fit into the BufWriter
  DiskFails  \* whether opening or writing the file can fail here

ASSUME AccessLogAssumption ==
  /\ {RingSize, BufSize} \subseteq Nat \ {0}
  /\ DiskFails \in BOOLEAN

VARIABLES
  logged,   \* the entries given to Logger::log
  channel,  \* the entries on their way to the writer
  writer,   \* where the writer task is
  line,     \* the entries it has taken out; the last one is being written
  ring,     \* the LogRing
  buffer,   \* lines in the BufWriter
  lost,     \* the lines of a write that failed
  file      \* lines in the file

logVars == <<logged, channel, writer, line, ring, buffer, lost, file>>

LogInit ==
  /\ logged = {}
  /\ channel = <<>>
  /\ writer = "open"
  /\ line = <<>>
  /\ ring = <<>>
  /\ buffer = <<>>
  /\ lost = <<>>
  /\ file = <<>>

(* Mutant of Log: entries logged before the file is open are dropped.      *)
Log_NeedsOpenFile(e) ==
  /\ e \notin logged
  /\ logged' = logged \cup {e}
  /\ channel' = IF writer \in {"open", "ended"} THEN channel ELSE Append(channel, e)
  /\ UNCHANGED <<writer, line, ring, buffer, lost, file>>

(* Logger::log: once the writer has ended the receiver is gone and the     *)
(* entry is dropped.                                                       *)
Log(e) ==
  /\ e \notin logged
  /\ logged' = logged \cup {e}
  /\ channel' = IF writer = "ended" THEN channel ELSE Append(channel, e)
  /\ UNCHANGED <<writer, line, ring, buffer, lost, file>>

(* The writer task ends; what is in the channel goes with the receiver.    *)
End ==
  /\ writer' = "ended"
  /\ channel' = <<>>

Open ==
  /\ writer = "open"
  /\ \/ writer' = "recv" /\ UNCHANGED channel
     \/ DiskFails /\ End
  /\ UNCHANGED <<logged, line, ring, buffer, lost, file>>

(* Mutant of Pushed: the ring is trimmed only when it is over its size.    *)
Pushed_OffByOne(e) ==
  Append(IF Len(ring) > RingSize THEN Tail(ring) ELSE ring, e)

(* ring_push.                                                              *)
Pushed(e) == Append(IF Len(ring) >= RingSize THEN Tail(ring) ELSE ring, e)

Receive ==
  /\ writer = "recv"
  /\ channel # <<>>
  /\ channel' = Tail(channel)
  /\ line' = Append(line, Head(channel))
  /\ ring' = Pushed(Head(channel))
  /\ writer' = "write"
  /\ UNCHANGED <<logged, buffer, lost, file>>

(* Mutant of WriteLine: a full buffer is dropped instead of written.       *)
WriteLine_DropsBuffer ==
  /\ writer = "write"
  /\ writer' = "recv"
  /\ IF Len(buffer) < BufSize
     THEN buffer' = Append(buffer, Last(line))
     ELSE buffer' = <<Last(line)>>
  /\ UNCHANGED <<logged, channel, line, ring, lost, file>>

(* write_all on the buffer: a full buffer is handed to the file first.     *)
WriteLine ==
  /\ writer = "write"
  /\ writer' = "recv"
  /\ IF Len(buffer) < BufSize
     THEN buffer' = Append(buffer, Last(line)) /\ UNCHANGED file
     ELSE lost = <<>> /\ buffer' = <<Last(line)>> /\ file' = file \o buffer
  /\ UNCHANGED <<logged, channel, line, ring, lost>>

(* tokio's File takes the full buffer and writes it behind the task's      *)
(* back: it says Ok, and the write fails, after n whole lines of it.       *)
LineLost ==
  /\ DiskFails
  /\ writer = "write"
  /\ writer' = "recv"
  /\ Len(buffer) >= BufSize
  /\ lost = <<>>
  /\ \E n \in 0..Len(buffer) - 1 :
       /\ file' = file \o SubSeq(buffer, 1, n)
       /\ lost' = SubSeq(buffer, n + 1, Len(buffer))
  /\ buffer' = <<Last(line)>>
  /\ UNCHANGED <<logged, channel, line, ring>>

(* The failure is reported when the next full buffer is handed over: the   *)
(* loop is left for good, with that buffer and without the line in hand.   *)
LineFails ==
  /\ writer = "write"
  /\ Len(buffer) >= BufSize
  /\ lost # <<>>
  /\ writer' = "flush"
  /\ UNCHANGED <<logged, channel, line, ring, buffer, lost, file>>

(* The flush after the loop, which may fail as well. It hands over what is *)
(* in the buffer; an error of it is written to the log of the server.      *)
LastFlush ==
  /\ writer = "flush"
  /\ \/ file' = file \o buffer /\ buffer' = <<>>
     \/ UNCHANGED <<file, buffer>>
  /\ End
  /\ UNCHANGED <<logged, line, ring, lost>>

WriterStep == Open \/ Receive \/ WriteLine \/ LineLost \/ LineFails \/ LastFlush

LogNext == (\E e \in Entries : Log(e)) \/ WriterStep

LogSpec == LogInit /\ [][LogNext]_logVars

(* The writer is a task of the runtime: while it can go on it does.        *)
FairLogSpec == LogSpec /\ WF_logVars(WriterStep)

-----------------------------------------------------------------------------
(* Properties                                                              *)

LogTypeOK ==
  /\ logged \subseteq Entries
  /\ {channel, line, ring, buffer, lost, file} \subseteq Seq(Entries)
  /\ writer \in {"open", "recv", "write", "flush", "ended"}
  /\ Len(buffer) <= BufSize

(* The ring holds exactly the most recent lines, oldest first, whatever    *)
(* became of the file.                                                     *)
RingIsRecent ==
  ring = SubSeq(line, IF Len(line) > RingSize THEN Len(line) - RingSize + 1 ELSE 1,
                Len(line))

(* Between the channel and the file nothing is repeated or reordered, and  *)
(* one write at most is lost before the loop is left: what is written,     *)
(* what that write lost and what is buffered are the lines taken out, up   *)
(* to the one in hand. Of the file that the last flush leaves nothing is   *)
(* said.                                                                   *)
FileInOrder ==
  /\ writer \in {"open", "recv"} => file \o lost \o buffer = line
  /\ writer \in {"write", "flush"} => file \o lost \o buffer = Front(line)

(* An entry that was logged gets to the file or to the buffer, unless a    *)
(* write loses it or the writer ends. How long it stays in the buffer is   *)
(* not said: no timer flushes it.                                          *)
LoggedIsWritten ==
  \A e \in Entries :
    e \in logged ~> (e \in ToSet(file \o lost \o buffer) \/ writer = "ended")

(* The comment at the failed write: "Re-open and retry on next entry".     *)
WriterRecovers == writer = "flush" ~> writer = "recv"
=============================================================================
