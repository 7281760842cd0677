---------------------------- MODULE BufferStore ----------------------------
(***************************************************************************)
(* A buffer store (src/store/bufferstore.cc) as an agent is configured     *)
(* with: a network primary (networkstore.cc) and a file secondary          *)
(* (filestore.cc, filesystem.cc), driven by the storer thread (storer.cc). *)
(* Messages go to the primary; while it is away they are written to buffer *)
(* files, and when it is back the files are read, deleted and sent on.     *)
(* One thread runs every handler; around it the remote kids goes away and  *)
(* comes back, the disk may refuse a file or the directory, SIGHUP reloads *)
(* the store and the process may crash, leaving the buffer files behind.   *)
(*                                                                         *)
(* A message is its number in the order in which the storer takes it.      *)
(***************************************************************************)
EXTENDS Integers, Sequences, SequencesExt, FiniteSets

CONSTANTS
  MaxMsgs,      \* bound on the messages taken
  Empty,        \* the messages with an empty topic or content
  PerCron,      \* max_msg_per_cron_
  Reconnect,    \* reconnect_interval_, in crons
  DiskFails,    \* whether a buffer file may fail to open, to write or to read
  MaxOutages, MaxReloads, MaxCrashes, \* bounds on the environment
  MaxDirErrors  \* bound on the times the directory cannot be opened

ASSUME BoundsAssumption ==
  /\ MaxMsgs \in Nat /\ Empty \subseteq 1..MaxMsgs
  /\ PerCron \in Nat \ {0} /\ Reconnect \in Nat \ {0}
  /\ DiskFails \in BOOLEAN
  /\ MaxOutages \in Nat /\ MaxReloads \in Nat /\ MaxCrashes \in Nat
  /\ MaxDirErrors \in Nat

VARIABLES
  isOpen,   \* is_open_ of the buffer store
  state,    \* state_; "garbage" is a value outside the enumeration
  deque,    \* msg_to_transfer_, NULL and empty alike
  sec,      \* secondary: closed buffer files, the open one, is_open_
  up,       \* primary: agent_ # NULL
  sending,  \* primary: state_ = Sending
  wire,     \* primary: messages given to the agent the remote has not got
  acks,     \* primary: answers of the remote that have not been read
  sinceTry, \* primary: crons since last_reconnect_, up to Reconnect
  remote,   \* what the remote kids has received
  taken,    \* messages the storer has taken from the queue
  fate,     \* fate[m]: how message m was given up, "none" if it was not
  net,      \* the remote can be reached
  running,  \* the process runs
  outages, reloads, crashes,
  dirErrors,  \* handlers in which the directory could not be opened
  again,    \* for checking: messages read from a file that was not deleted
  missed    \* for checking: the store went to its primary without having
            \* been able to see whether files were left

vars == <<isOpen, state, deque, sec, up, sending, wire, acks, sinceTry, remote,
          taken, fate, net, running, outages, reloads, crashes, dirErrors, again, missed>>
directory == <<dirErrors, again, missed>>
primary == <<up, sending, wire, acks, sinceTry, remote>>
environment == <<net, running, outages, reloads, crashes>>

Msgs == 1..MaxMsgs
NoFile == [old |-> {}, cur |-> <<>>, isOpen |-> FALSE]

(* What is given up in the step, and how. *)
GiveUp(ms, how) == [m \in Msgs |-> IF m \in ms THEN how ELSE fate[m]]

----------------------------------------------------------------------------
(* FileStore as secondary: s.old are the closed buffer files, s.cur is the *)
(* open one.                                                               *)

(* FileStore::Close and File::Close: an empty file is removed. *)
SecClose(s) ==
  IF s.isOpen
    THEN [old |-> IF s.cur = <<>> THEN s.old ELSE s.old \cup {s.cur},
          cur |-> <<>>, isOpen |-> FALSE]
    ELSE s

(* FileStore::Open and File::Open: the possible outcomes. The name has the *)
(* time of day in seconds and the mode is "a+", so that a file closed in   *)
(* the same second goes on being written.                                  *)
SecOpen(s) ==
  LET c == SecClose(s)
  IN  {[c EXCEPT !.isOpen = TRUE]}
        \cup {[old |-> c.old \ {f}, cur |-> f, isOpen |-> TRUE] : f \in c.old}
        \cup (IF DiskFails THEN {c} ELSE {})

(* DoAddMessage opens a closed secondary first. *)
SecEnsure(s) == IF s.isOpen THEN {s} ELSE SecOpen(s)

(* FileStore::HaveOldMessage: some file is in the directory; a directory   *)
(* that cannot be opened (FindOldestFile) looks empty.                     *)
HaveOldMessage(s, opened) == opened /\ (s.old # {} \/ s.isOpen)

(* The messages of a buffer file: File::Read fails on a size of zero, and  *)
(* the rest of the file is skipped as bad.                                 *)
GetMessages(f) ==
  LET bad == {i \in DOMAIN f : f[i] \in Empty}
  IN  IF bad = {} THEN f
      ELSE SubSeq(f, 1, (CHOOSE i \in bad : \A j \in bad : i <= j) - 1)

(* Mutant: a file that cannot be read is read all the same. *)
GetAlways(f, opened) == IF opened THEN {GetMessages(f)} ELSE {<<>>}

(* FileStore::GetOldestMessages: the possible outcomes. No message when    *)
(* the directory or the file cannot be opened.                             *)
GetOldestMessages(f, opened) ==
  (IF opened THEN {GetMessages(f)} ELSE {})
    \cup (IF DiskFails \/ ~opened THEN {<<>>} ELSE {})

(* FileStore::DeleteOldestMessages: the files left of s. *)
DeleteOldestMessages(s, f, opened) ==
  IF opened THEN [s EXCEPT !.old = @ \ {f}] ELSE s

----------------------------------------------------------------------------
Init ==
  /\ isOpen = FALSE /\ state = "garbage" /\ deque = <<>> /\ sec = NoFile
  /\ up = FALSE /\ sending = FALSE /\ wire = <<>> /\ acks = 0
  /\ sinceTry = Reconnect /\ remote = <<>>
  /\ taken = 0 /\ fate = [m \in Msgs |-> "none"]
  /\ net \in BOOLEAN /\ running = FALSE
  /\ outages = 0 /\ reloads = 0 /\ crashes = 0
  /\ dirErrors = 0 /\ again = {} /\ missed = FALSE

(* The calls of FindOldestFile that fail in a handler, of those it makes;  *)
(* dirErrors counts the handlers.                                          *)
DirectoryFails(failing) ==
  /\ failing # {} => dirErrors < MaxDirErrors
  /\ dirErrors' = IF failing = {} THEN dirErrors ELSE dirErrors + 1

(* BufferStore::Open of a new store, when the secondary's files are s: the *)
(* primary connects if the remote can be reached, the secondary is opened  *)
(* only if it cannot. If neither opens, state_ is not initialised, and     *)
(* state_ of a primary that never connected is not either.                 *)
Open(s) ==
  /\ up' = net /\ wire' = <<>> /\ acks' = 0 /\ sinceTry' = 0
  /\ deque' = <<>>
  /\ \/ /\ net
        /\ \E failing \in SUBSET {"have"} :
             /\ DirectoryFails(failing)
             /\ state' = IF HaveOldMessage(s, failing = {}) THEN "kTransfering" ELSE "kToPrimary"
             /\ missed' = (failing # {})
        /\ isOpen' = TRUE /\ sec' = s /\ sending' = FALSE
     \/ /\ ~net
        /\ sec' \in SecOpen(s) /\ sending' \in BOOLEAN
        /\ isOpen' = sec'.isOpen
        /\ IF isOpen' THEN state' = "kToSecondary"
           ELSE state' \in {"kToPrimary", "kToSecondary", "kTransfering", "garbage"}
        /\ UNCHANGED <<dirErrors, missed>>
  /\ UNCHANGED again

(* The process starts: Storer::Create. *)
Create ==
  /\ ~running
  /\ running' = TRUE
  /\ Open(sec)
  /\ UNCHANGED <<remote, taken, fate, net, outages, reloads, crashes>>

(* BufferStore::Close by the destructor; what the agent has not sent goes  *)
(* with it. Then DoConfigReload opens a new store (Storer::Cron).          *)
DoConfigReload ==
  /\ running /\ reloads < MaxReloads
  /\ reloads' = reloads + 1
  /\ Open(SecClose(sec))
  /\ fate' = [m \in Msgs |-> IF m \in ToSet(deque) THEN "close"
                             ELSE IF m \in ToSet(wire) THEN "wire" ELSE fate[m]]
  /\ UNCHANGED <<remote, taken, net, running, outages, crashes>>

(* The process dies: what is in memory is gone, of the open buffer file    *)
(* the part that stdio had written is left.                                *)
Crash ==
  /\ running /\ crashes < MaxCrashes
  /\ crashes' = crashes + 1
  /\ running' = FALSE /\ isOpen' = FALSE /\ state' = "garbage"
  /\ deque' = <<>> /\ up' = FALSE /\ sending' = FALSE /\ wire' = <<>> /\ acks' = 0
  /\ \E k \in 0..Len(sec.cur) :
       /\ sec' = [old |-> IF k = 0 THEN sec.old ELSE sec.old \cup {SubSeq(sec.cur, 1, k)},
                  cur |-> <<>>, isOpen |-> FALSE]
       /\ fate' = GiveUp(ToSet(deque) \cup ToSet(wire)
                           \cup {sec.cur[j] : j \in (k + 1)..Len(sec.cur)}, "crash")
  /\ UNCHANGED <<sinceTry, remote, taken, net, outages, reloads, directory>>

----------------------------------------------------------------------------
(* BufferStore::State: of the store in use. *)
Free == IF state = "kToPrimary" THEN ~sending ELSE TRUE

(* The message is written to the secondary s, or dropped. *)
ToSecondary(m, s) ==
  \E t \in SecEnsure(s) :
    IF t.isOpen
      THEN sec' = [t EXCEPT !.cur = Append(@, m)] /\ UNCHANGED fate
      ELSE sec' = t /\ fate' = GiveUp({m}, "drop")

(* NetworkStore::DoAddMessage of a connected primary: the agent has one    *)
(* message more to send (Agent::Log) and the primary is not free.          *)
Log(m) == wire' = Append(wire, m) /\ sending' = TRUE

(* BufferStore::DoAddMessage with NetworkStore::DoAddMessage and           *)
(* FileStore::DoAddMessage: a primary that is not open is replaced by the  *)
(* secondary, with the message that noticed it.                            *)
DoAddMessage(m) ==
  \/ /\ state = "kToPrimary" /\ up
     /\ Log(m)
     /\ UNCHANGED <<state, sec, fate>>
  \/ /\ state = "kToPrimary" /\ ~up
     /\ state' = "kToSecondary"
     /\ \E s \in SecOpen(sec) : ToSecondary(m, s)
     /\ UNCHANGED <<wire, sending>>
  \/ /\ state \in {"kToSecondary", "kTransfering"}
     /\ ToSecondary(m, sec)
     /\ UNCHANGED <<state, wire, sending>>
  \/ /\ state = "garbage"
     /\ fate' = GiveUp({m}, "ignored")
     /\ UNCHANGED <<state, wire, sending, sec>>

(* Storer::StoreMessage on a notice: the next message, if the store is     *)
(* free.                                                                   *)
StoreMessage ==
  /\ running /\ Free /\ taken < MaxMsgs
  /\ taken' = taken + 1
  /\ DoAddMessage(taken + 1)
  /\ UNCHANGED <<isOpen, deque, up, acks, sinceTry, remote, environment, directory>>

----------------------------------------------------------------------------
(* Mutant: the buffer is read back although the primary is still away. *)
CronStateBlind == IF state = "kToSecondary" THEN "kTransfering" ELSE state

(* BufferStore::Cron.  The state it works in, after a primary that is back *)
(* has been noticed.                                                       *)
CronState == IF state = "kToSecondary" /\ up THEN "kTransfering" ELSE state

(* Messages at the front of msg_to_transfer_ that leave it: as many as one *)
(* cron may send, or the one whose transfer fails.                         *)
Leaving ==
  IF CronState # "kTransfering" THEN 0
  ELSE LET most == IF up THEN PerCron ELSE 1
       IN  IF Len(deque) < most THEN Len(deque) ELSE most
Rest == SubSeq(deque, Leaving + 1, Len(deque))

(* The calls of FindOldestFile in a cron: HaveOldMessage before reading,   *)
(* GetOldestMessages, DeleteOldestMessages and HaveOldMessage after it.    *)
Lookups == {"have", "get", "delete", "left"}

(* Whether a buffer file is read in this cron. *)
Reads(failing) ==
  /\ CronState = "kTransfering" /\ Rest = <<>>
  /\ HaveOldMessage(sec, "have" \notin failing)

(* The file it reads: FindOldestFile goes by a time in seconds, the model  *)
(* takes any closed file; the empty sequence stands for none.              *)
Candidates(failing) ==
  IF Reads(failing) /\ SecClose(sec).old # {} THEN SecClose(sec).old ELSE {<<>>}

(* Mutant: the file that was read is not deleted. *)
SecondaryKept(f, failing) == IF Reads(failing) THEN SecClose(sec) ELSE sec

(* The secondary after that. *)
SecondaryRead(f, failing) ==
  IF Reads(failing)
    THEN DeleteOldestMessages(SecClose(sec), f, "delete" \notin failing) ELSE sec

(* Mutant: an empty msg_to_transfer_ is enough. *)
SwitchEarly(s, failing) == CronState = "kTransfering" /\ deque' = <<>>

(* When nothing is left to transfer the store goes back to its primary. *)
Switches(s, failing) ==
  /\ CronState = "kTransfering" /\ deque' = <<>>
  /\ ~HaveOldMessage(s, "left" \notin failing)

(* Mutant: the interval starts again with every cron. *)
PrimaryCronStarves ==
  /\ sinceTry' = 0
  /\ up' = (up \/ (1 >= Reconnect /\ net))

(* NetworkStore::Cron: reconnect, at most once in reconnect_interval_. *)
PrimaryCron ==
  LET due == sinceTry + 1 >= Reconnect
  IN  /\ up' = (up \/ (due /\ net))
      /\ sinceTry' = IF due THEN (IF up THEN Reconnect ELSE 0) ELSE sinceTry + 1

(* BufferStore::Cron: transfer, read the next buffer file, switch, and the *)
(* crons of the two stores; a primary that connects is free, the secondary *)
(* may rotate its file.  What is not read of a file is given up when the   *)
(* file is deleted; what is read of one that is not is there again.        *)
Cron ==
  LET out == SubSeq(deque, 1, Leaving)
  IN  /\ running /\ isOpen
      /\ wire' = IF up THEN wire \o out ELSE wire
      /\ \E failing \in SUBSET Lookups : \E f \in Candidates(failing) :
         \E read \in GetOldestMessages(f, "get" \notin failing) :
           LET s == SecondaryRead(f, failing)
               kept == "delete" \in failing
           IN  /\ DirectoryFails(failing)
               /\ deque' = Rest \o read
               /\ fate' = [m \in Msgs |->
                    IF ~up /\ m \in ToSet(out) THEN "transfer"
                    ELSE IF kept \/ m \notin ToSet(f) \ ToSet(read) THEN fate[m]
                    ELSE IF m \in ToSet(GetMessages(f)) THEN "unread" ELSE "badfile"]
               /\ again' = IF kept THEN again \cup ToSet(read) ELSE again
               /\ IF Switches(s, failing)
                    THEN /\ state' = "kToPrimary" /\ sec' = SecClose(s)
                         /\ missed' = ("left" \in failing)
                    ELSE /\ state' = CronState /\ UNCHANGED missed
                         /\ sec' \in {s} \cup (IF s.isOpen THEN SecOpen(s) ELSE {})
      /\ PrimaryCron
      /\ sending' = IF up THEN sending \/ out # <<>> ELSE sending /\ ~up'
      /\ UNCHANGED <<isOpen, acks, remote, taken, environment>>

----------------------------------------------------------------------------
(* Mutant: what was sent stays with the agent until it is answered. *)
SendRequestKeeps ==
  /\ up /\ wire # <<>>
  /\ remote' = Append(remote, Head(wire))
  /\ acks' = acks + 1
  /\ UNCHANGED <<isOpen, state, deque, sec, up, sending, wire, sinceTry, taken, fate,
                 environment, directory>>

(* SendRequest, and the remote kids that takes the LOG command and answers.*)
SendRequest ==
  /\ up /\ wire # <<>>
  /\ wire' = Tail(wire)
  /\ remote' = Append(remote, Head(wire))
  /\ acks' = acks + 1
  /\ UNCHANGED <<isOpen, state, deque, sec, up, sending, sinceTry, taken, fate, environment,
                 directory>>

(* Mutant: an answer does not free the store. *)
ProcessIgnored(k) == acks' = acks - k /\ UNCHANGED sending

(* ProcessReplyBuffer of k answers: each frees the store (OnMsgSent). *)
ProcessReplyBuffer(k) == acks' = acks - k /\ sending' = FALSE

(* ReadReply: as many answers as the read has got are processed. *)
ReadReply(k) ==
  /\ up
  /\ ProcessReplyBuffer(k)
  /\ UNCHANGED <<isOpen, state, deque, sec, up, wire, sinceTry, remote, taken, fate,
                 environment, directory>>

(* ReadReply or SendRequest meets the end of the connection: OnDisconnect  *)
(* deletes the agent and with it what was not sent.                        *)
OnDisconnect ==
  /\ up /\ ~net
  /\ up' = FALSE /\ sending' = FALSE /\ wire' = <<>> /\ acks' = 0
  /\ fate' = GiveUp(ToSet(wire), "wire")
  /\ UNCHANGED <<isOpen, state, deque, sec, sinceTry, remote, taken, environment, directory>>

(* The remote goes away and comes back. *)
Outage ==
  /\ net /\ outages < MaxOutages
  /\ net' = FALSE /\ outages' = outages + 1
  /\ UNCHANGED <<isOpen, state, deque, sec, primary, taken, fate, running, reloads, crashes,
                 directory>>

Restored ==
  /\ ~net /\ net' = TRUE
  /\ UNCHANGED <<isOpen, state, deque, sec, primary, taken, fate, running, outages,
                 reloads, crashes, directory>>

Read == \E k \in 1..acks : ReadReply(k)

Next ==
  \/ Create \/ DoConfigReload \/ Crash
  \/ StoreMessage \/ Cron
  \/ SendRequest \/ Read \/ OnDisconnect
  \/ Outage \/ Restored

Spec == Init /\ [][Next]_vars

(* The storer's event loop runs every handler that is due, and the remote, *)
(* while it can be reached, takes what it is sent and answers.             *)
FairSpec ==
  /\ Spec
  /\ WF_vars(Create) /\ WF_vars(StoreMessage) /\ WF_vars(Cron)
  /\ WF_vars(SendRequest) /\ WF_vars(Read)

----------------------------------------------------------------------------
Files == IF sec.isOpen THEN sec.old \cup {sec.cur} ELSE sec.old

(* Type invariant. *)
TypeOK ==
  /\ isOpen \in BOOLEAN /\ up \in BOOLEAN /\ sending \in BOOLEAN
  /\ net \in BOOLEAN /\ running \in BOOLEAN
  /\ state \in {"kToPrimary", "kToSecondary", "kTransfering", "garbage"}
  /\ deque \in Seq(Msgs) /\ wire \in Seq(Msgs) /\ remote \in Seq(Msgs)
  /\ sec \in [old : SUBSET (Seq(Msgs) \ {<<>>}), cur : Seq(Msgs), isOpen : BOOLEAN]
  /\ acks \in Nat /\ sinceTry \in 0..Reconnect /\ taken \in 0..MaxMsgs
  /\ fate \in [Msgs -> {"none", "wire", "transfer", "badfile", "unread", "drop",
                        "ignored", "close", "crash"}]
  /\ dirErrors \in 0..MaxDirErrors /\ again \in SUBSET Msgs /\ missed \in BOOLEAN
  /\ outages \in 0..MaxOutages /\ reloads \in 0..MaxReloads /\ crashes \in 0..MaxCrashes

(* Times message m is in the sequence s. *)
Count(m, s) == Cardinality({i \in DOMAIN s : s[i] = m})

(* The places message m is in: at the remote, with the agent, in memory,   *)
(* in a buffer file, or given up.                                          *)
PlacesOf(m) ==
  Count(m, remote) + Count(m, wire) + Count(m, deque)
    + Cardinality({f \in Files : m \in ToSet(f)})
    + (IF fate[m] = "none" THEN 0 ELSE 1)

(* Every message the storer has taken is in exactly one place, once.  No   *)
(* outage, reload, crash or failing disk makes the store send a message    *)
(* twice, read it twice or lose it in a way the other properties do not    *)
(* name.  Only a message that was read from a file which then could not be *)
(* deleted may be in more.                                                 *)
Conserved ==
  \A m \in Msgs :
    IF m \in again THEN PlacesOf(m) >= 1
    ELSE PlacesOf(m) = IF m <= taken THEN 1 ELSE 0

(* A store that sends to its primary has nothing left in its buffer: no    *)
(* message is stranded in memory, in an open file, or in a file that       *)
(* nobody will read (the code only logs a warning for it).  The one way to *)
(* leave a file behind is to go to the primary while the directory cannot  *)
(* be opened.                                                              *)
NothingStranded ==
  isOpen /\ state = "kToPrimary" =>
    deque = <<>> /\ ~sec.isOpen /\ (missed \/ Files = {})

(* A message is given up only for a fault of the kind that explains it: in *)
(* the hands of the agent for an outage or a reload, on its way out of the *)
(* buffer for an outage, in memory for a reload or a crash, before it is   *)
(* stored for a disk that fails, and when its file is read for an empty    *)
(* message before it (or itself), or because the file, or the directory,   *)
(* could not be opened then and the file was deleted all the same.         *)
LossHasACause ==
  \A m \in Msgs :
    /\ fate[m] = "wire" => outages > 0 \/ reloads > 0
    /\ fate[m] = "transfer" => outages > 0
    /\ fate[m] = "close" => reloads > 0
    /\ fate[m] = "crash" => crashes > 0
    /\ fate[m] \in {"drop", "ignored"} => DiskFails
    /\ fate[m] = "badfile" => \E e \in Empty : e <= m
    /\ fate[m] = "unread" => DiskFails \/ dirErrors > 0

(* The messages given up. *)
Lost == {m \in Msgs : fate[m] # "none"}

Promise == INSTANCE AtMostOnce WITH
             accepted  <- taken,
             delivered <- remote,
             lost      <- Lost,
             doubtful  <- again

(* Through outages, reloads, crashes and failing disks the store delivers  *)
(* a message it has taken at most once, never after it was given up, and   *)
(* what the remote has received is never taken back: every step is one of  *)
(* AtMostOnce or invisible there.  The messages in doubt are those of a    *)
(* file that was read and could not be deleted.                            *)
ImplementsPromise == Promise!Spec

(* Once the remote stays reachable, the buffer of an open store is sent    *)
(* and the store goes back to its primary; only a file it could not see    *)
(* then is left.                                                           *)
BufferDrains ==
  <>[](net /\ running /\ isOpen) =>
    <>[](state = "kToPrimary" /\ deque = <<>> /\ (missed \/ Files = {}))

(* A store of which nothing could be opened: its cron does nothing, its    *)
(* state_ happens to be kToPrimary and that of its primary not Free.       *)
NeverFree == ~isOpen /\ state = "kToPrimary" /\ sending

(* Once the remote stays reachable, the storer is not blocked by a store   *)
(* that waits for an answer: every message is taken, unless the store is   *)
(* one that could not be opened and for that reason is never free.         *)
StorerProceeds ==
  <>[](net /\ running) => <>(taken = MaxMsgs) \/ <>[]NeverFree

(* A message read back from the buffer is not given up because the primary *)
(* is away again (doc/store.md:80).                                        *)
TransferSurvivesOutage == \A m \in Msgs : fate[m] # "transfer"
============================================================================
