----------------------------- MODULE TopicFiles -----------------------------
(***************************************************************************)
(* A file store that is not the secondary of a buffer (src/store/          *)
(* filestore.cc, src/filesystem.cc), as operators on a record: the open    *)
(* file of each topic, with the time that is in its name and the time      *)
(* since which stdio holds something of it (0 if it holds nothing): that   *)
(* of the oldest write, or of the last flush that failed.                  *)
(*                                                                         *)
(* A directory or a file can be created or not (disk), and without disk a  *)
(* flush may fail; a write to an open file is always taken for a success,  *)
(* as fwrite never returns -1.                                             *)
(***************************************************************************)
EXTENDS Integers

CONSTANTS Rotate, Flush   \* rotate_interval_, flush_interval_ in seconds, -1 for none

(* Both can be 0, from "0s" or "h"; Cron then divides by zero. *)
ASSUME IntervalAssumption ==
  Rotate \in {-1} \cup (Nat \ {0}) /\ Flush \in {-1} \cup Nat

NoFiles == <<>>
NewFileStore == [isOpen |-> FALSE, files |-> NoFiles, lastFlush |-> 0, lastRotate |-> 0]

(* FileStore::Close: every file is closed, and what stdio holds is written *)
(* or lost: nobody looks at what fclose returns.                           *)
(* A store that is not open keeps the files it may have.                   *)
FileClose(f) == IF f.isOpen THEN [f EXCEPT !.isOpen = FALSE, !.files = NoFiles] ELSE f

(* FileStore::Open makes the directory that has no part of a name in it. *)
FileOpen(f, now, disk) ==
  [FileClose(f) EXCEPT !.isOpen = disk, !.lastFlush = now, !.lastRotate = now]

(* The start of the period, or the time of day if the thread has no clock. *)
NameTime(unixtime, now) ==
  LET t == IF Rotate > 0 THEN unixtime - (unixtime % Rotate) ELSE unixtime
  IN  IF t = 0 THEN now ELSE t

(* FileStore::DoAddMessage succeeds. *)
FileAccepts(f, topic, disk) == topic \in DOMAIN f.files \/ disk

(* FileStore::DoAddMessage, when it does. *)
FileAdd(f, topic, unixtime, now) ==
  LET old == IF topic \in DOMAIN f.files THEN f.files[topic]
             ELSE [name |-> NameTime(unixtime, now), dirty |-> 0]
      new == IF old.dirty = 0 THEN [old EXCEPT !.dirty = now] ELSE old
  IN  [f EXCEPT !.files = [t \in DOMAIN f.files \cup {topic} |->
                             IF t = topic THEN new ELSE f.files[t]]]

(* FileStore::Flush: the files of the topics in failing keep what they     *)
(* hold.  Whatever it returns, the next one is an interval away.           *)
FileFlush(f, unixtime, failing) ==
  [f EXCEPT !.files = [t \in DOMAIN f.files |->
                         [f.files[t] EXCEPT !.dirty =
                            IF @ # 0 /\ t \in failing THEN unixtime ELSE 0]],
            !.lastFlush = unixtime]

(* Mutant: a rotation is due one interval after the last. *)
RotateDueLater(f, unixtime) == Rotate # -1 /\ unixtime - f.lastRotate >= Rotate

(* A rotation is due: the period ends in this very second. *)
RotateDue(f, unixtime) ==
  Rotate # -1 /\ unixtime % Rotate = 0 /\ f.lastRotate < unixtime

(* Mutant: flushed only when the interval has been passed. *)
FlushDueLate(f, unixtime) == Flush # -1 /\ unixtime - f.lastFlush > Flush

FlushDue(f, unixtime) == Flush # -1 /\ unixtime - f.lastFlush >= Flush

(* FileStore::Cron: now is the time when Open asks for it. *)
FileCron(f, unixtime, now, disk, failing) ==
  IF ~f.isOpen THEN f
  ELSE IF RotateDue(f, unixtime) THEN FileOpen(f, now, disk)
  ELSE IF FlushDue(f, unixtime) THEN FileFlush(f, unixtime, failing)
  ELSE f
============================================================================
