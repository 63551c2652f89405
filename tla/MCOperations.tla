---------------------------- MODULE MCOperations ----------------------------
(***************************************************************************)
(* What operators and account holders do besides mail, for TLC: the queue  *)
(* with an operator who holds, reschedules and drops messages; the         *)
(* commands over the ctl socket; changes to the configuration; login       *)
(* sessions; and imports and exports. Each is a part of its own, chosen in *)
(* the initial state; the variables of the queue keep one value in the     *)
(* others.                                                                 *)
(***************************************************************************)
EXTENDS MCQueue, Integers, Sequences, SequencesExt

VARIABLES part, s

-----------------------------------------------------------------------------
\* All commands, and one the server does not know.
Known == INSTANCE Ctl WITH x <- s, Commands <- {}, MaxChunks <- 2
Control ==
  INSTANCE Ctl WITH
    x <- s, Commands <- DOMAIN Known!Client \cup {"new"}, MaxChunks <- 2

\* Two accounts and domains, and a queued message from an address with something
\* after a separator.
Configuration ==
  INSTANCE Config WITH
    g <- s, Accounts <- {"x", "y"}, Domains <- {"d", "e"}, Selectors <- {"s"},
    Postmaster <- "x", Localparts <- {"a", "A", "a+t"},
    Senders <- {[acc |-> "x", addr |-> [lp |-> "a+t", dom |-> "d"]]}, MaxOps <- 2

\* Two requests at a time, from two addresses of the same networks.
Logins ==
  INSTANCE Sessions WITH
    Procs <- {"p1", "p2"}, MaxTokens <- 3, sessionsPerAccount <- 2, Lifetime <- 1,
    MaxAdminSessions <- 1, MaxSseTokens <- 2, IPs <- {"i1", "i2"},
    Mask <- <<[i1 |-> "i1", i2 |-> "i2"], [i1 |-> "n", i2 |-> "n"], [i1 |-> "w", i2 |-> "w"]>>,
    Limits <- <<2, 3, 3>>, Window <- 2, Accounts <- {"a"},
    loginAttemptsMaxPerAccount <- 1, ChanSize <- 2, KeepTime <- 1,
    MaxTime <- 2, MaxOps <- 4, MaxFailures <- 1

-----------------------------------------------------------------------------
\* Two imports into one account, one of them followed by a browser.
Imports ==
  INSTANCE ImportManage WITH
    i <- s, Tokens <- {"t1", "t2"}, Listeners <- {"l1"}, Buffer <- 1, Files <- 1,
    MaxAborts <- 1, MaxTicks <- 1

\* Messages with lines like those that mbox files use themselves, with headers that
\* hold flags, and without an end of line; three mailboxes, one for junk.
Line(k, q, nl) == [k |-> k, q |-> q, nl |-> nl, v |-> {}]
Plain(k) == Line(k, 0, "crlf")
Status(flags) == [Plain("status") EXCEPT !.v = flags]
Texts ==
  {<<Plain("text"), Plain("empty"), Plain("text"), Plain("empty")>>,
   <<Plain("from"), Plain("empty"), Plain("from"), Line("from", 1, "crlf")>>,
   <<Status({"Seen"}), Plain("text"), Plain("empty"), Status({"Draft"}), Plain("text")>>,
   <<Plain("text"), Plain("empty"), Line("text", 0, "none")>>}
SomeFlags == {{"Flagged", "Notjunk"}, {"Forwarded", "Junk", "Seen"}}
Child == <<"a", "b">>
ThreeBoxes == << <<"a">>, Child, <<"j">> >>
Messages(boxes, flagSets) == [mb : boxes, text : Texts, flags : flagSets]
Export(maildir, single, mailbox, recursive, ids) ==
  [maildir |-> maildir, single |-> single, mailbox |-> mailbox, recursive |-> recursive,
   ids |-> ids]
Archives ==
  INSTANCE ImportExport WITH
    x <- s,
    Sources <- {<<m, n>> :
                  m \in Messages({Child}, SomeFlags \cup {{"Junk", "Notjunk"}}),
                  n \in Messages(ToSet(ThreeBoxes), SomeFlags)},
    Boxes <- ThreeBoxes,
    Options <- {Export(TRUE, FALSE, <<>>, FALSE, <<>>), Export(FALSE, FALSE, <<>>, FALSE, <<>>),
                Export(FALSE, TRUE, Child, FALSE, <<>>), Export(TRUE, FALSE, <<"a">>, TRUE, <<>>),
                Export(TRUE, FALSE, <<>>, FALSE, <<2, 1>>),
                Export(FALSE, TRUE, <<>>, FALSE, <<1, 3>>)},
    Skips <- {<<>>, <<"a">>}, Existing <- << <<"Inbox">>, <<"a">>, <<"j">> >>, Junk <- <<"j">>,
    Dest <- <<"a", "c">>, QuotaMessageSize <- 12, MaxErase <- 1, MaxFail <- 1

-----------------------------------------------------------------------------
InitOperations ==
  /\ Init
  /\ \/ part = "queue" /\ s = <<>>
     \/ part = "ctl" /\ Control!Init
     \/ part = "config" /\ Configuration!Init
     \/ part = "logins" /\ Logins!Init
     \/ part = "imports" /\ Imports!Init
     \/ part = "archives" /\ Archives!Init

NextOperations ==
  /\ UNCHANGED part
  /\ \/ part = "queue" /\ Next /\ UNCHANGED s
     \/ part = "ctl" /\ Control!Next /\ UNCHANGED vars
     \/ part = "config" /\ Configuration!Next /\ UNCHANGED vars
     \/ part = "logins" /\ Logins!Next /\ UNCHANGED vars
     \/ part = "imports" /\ Imports!Next /\ UNCHANGED vars
     \/ part = "archives" /\ Archives!Next /\ UNCHANGED vars

SpecOperations == InitOperations /\ [][NextOperations]_<<vars, part, s>>

-----------------------------------------------------------------------------
\* Both sides of the ctl socket keep in step: see CtlInStep of Ctl.
CtlInStep == part = "ctl" => Control!CtlInStep

\* The configuration file can be loaded after every operation, what a failed operation leaves in
\* the active configuration is known, and the senders of queued messages keep their address: see
\* ConfigLoads, TracesKnown and SendersKept of Config.
ConfigSound ==
  part = "config" => /\ Configuration!ConfigLoads /\ Configuration!TracesKnown
                     /\ Configuration!SendersKept

\* Sessions, tokens and the counts of logins are in order: see SessionsSound of Sessions.
SessionsSound == part = "logins" => Logins!SessionsSound

\* An import is told about truthfully, and brings in what was exported, all of it or
\* nothing: see ImportsTold of ImportManage and ImportFaithful of ImportExport.
ImportsSound ==
  /\ part = "imports" => Imports!ImportsTold
  /\ part = "archives" => Archives!ImportFaithful
=============================================================================
