------------------------------ MODULE MCAccount ------------------------------
(***************************************************************************)
(* An account for TLC: its message files, its mailboxes and messages, the  *)
(* assignment of threads, the other upgrades, and the backup. Each is a    *)
(* part of its own, chosen in the initial state; the variables of the      *)
(* message files keep one value in the others.                             *)
(***************************************************************************)
EXTENDS MessageFiles, Sequences, TLC

VARIABLES part, s

\* The contents of messages are interchangeable.
Symmetric == Permutations(Bodies)

-----------------------------------------------------------------------------
\* A new account with an Inbox holding one message and a Sent mailbox, names at
\* two levels, and a junk pattern.
Inbox == <<"Inbox">>
Top == <<"a">>
Child == <<"a", "b">>
Rejects == <<"Rejects">>
Unmarked ==
  [mb |-> 0, uid |-> 0, cs |-> 0, ms |-> 0, exp |-> FALSE, flags |-> {}, kw |-> {},
   trained |-> "nil", orig |-> 0, dest |-> 0, reject |-> FALSE]
Mail ==
  INSTANCE Mailboxes WITH
    db <- s, Names <- {Top, Child},
    Initial <- <<[name |-> Inbox, use |-> {}], [name |-> <<"c">>, use |-> {"Sent"}]>>,
    Stored <- <<Unmarked>>, Deliveries <- {Inbox, Child}, RejectsName <- Rejects,
    JunkConf <- [enabled |-> TRUE,
                 patterns |-> [junk |-> {Child}, neutral |-> {Inbox, Rejects}]],
    Marks <- {[flags |-> {"Seen", "Deleted", "Junk"}, kw |-> {"k"}]},
    Subscribable <- {Child}, UseSets <- {{"Sent", "Archive"}},
    MaxModSeq <- 4, MaxMailboxes <- 5, MaxMessages <- 4, MaxDepth <- 3, MaxAnnotations <- 2

-----------------------------------------------------------------------------
\* A message, answers to it and to each other, a duplicate that makes a cycle, and
\* an answer by subject only.
Content(mid, refs, resp, at) ==
  [mid |-> mid, refs |-> refs, subj |-> "s", resp |-> resp, dsn |-> FALSE, at |-> at]
Threading ==
  INSTANCE Threads WITH
    u <- s,
    Mails <- {Content("a", <<>>, FALSE, 1), Content("b", <<"a">>, TRUE, 1),
              Content("a", <<"b">>, TRUE, 1), Content("c", <<"x", "b">>, TRUE, 1),
              Content("", <<>>, TRUE, 2)},
    MidOrder <- <<"a", "b", "c", "x">>,
    MaxOld <- 2, MaxMessages <- 3, MaxImport <- 2, BatchSize <- 1, Back <- 2, Ahead <- 1,
    MaxEvents <- 1

Upgrade ==
  INSTANCE AccountUpgrade WITH
    g <- s, Names <- << <<"a">>, <<"a", "b">>, <<"a", "b", "c">>, <<"a", "d">> >>,
    Tops <- {0, 2, 9}, Empty <- 9, MaxMessages <- 4, BatchSize <- 2,
    Items <- 5, Size <- 3, Workers <- {1, 2}, MaxEvents <- 2

Copies == INSTANCE Backup WITH b <- s, MaxID <- 3, MaxErrors <- 1

-----------------------------------------------------------------------------
InitAccount ==
  /\ Init
  /\ \/ part = "files" /\ s = <<>>
     \/ part = "mailboxes" /\ Mail!Init
     \/ part = "threads" /\ Threading!Init
     \/ part = "upgrade" /\ Upgrade!Init
     \/ part = "backup" /\ Copies!Init

\* Threads, upgrades and backups end, and changes to mailboxes are bounded.
NextAccount ==
  /\ UNCHANGED part
  /\ \/ part = "files" /\ Next /\ UNCHANGED s
     \/ part = "mailboxes" /\ Mail!Next /\ UNCHANGED vars
     \/ part = "threads" /\ Threading!Next /\ UNCHANGED vars
     \/ part = "upgrade" /\ Upgrade!Next /\ UNCHANGED vars
     \/ part = "backup" /\ Copies!Next /\ UNCHANGED vars
     \/ part # "files" /\ UNCHANGED <<vars, s>>

SpecAccount == InitAccount /\ [][NextAccount]_<<vars, part, s>>

\* Only the message files.
SpecFiles == (InitAccount /\ part = "files") /\ [][NextAccount]_<<vars, part, s>>

-----------------------------------------------------------------------------
\* The account passes CheckConsistency, with at most one mailbox per special use: see
\* Consistent and OneMailboxPerUse of Mailboxes.
MailboxesConsistent ==
  part = "mailboxes" => Mail!Consistent /\ Mail!OneMailboxPerUse

\* A client that asks for changes since a modseq misses nothing: see SyncStep of
\* Mailboxes.
SyncComplete == [][part = "mailboxes" => Mail!SyncStep]_<<part, s>>

\* Threads are sound and opened accounts upgraded, whatever happens in between: see
\* ThreadsSound of Threads and UpgradeSound of AccountUpgrade.
UpgradesSound ==
  /\ part = "threads" => Threading!ThreadsSound
  /\ part = "upgrade" => Upgrade!UpgradeSound

\* A backup has the files of the messages in its databases: see BackupComplete of Backup.
BackupComplete == part = "backup" => Copies!BackupComplete
==============================================================================
