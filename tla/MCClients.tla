------------------------------ MODULE MCClients ------------------------------
(***************************************************************************)
(* What clients see of an account, for TLC: IMAP connections that are told *)
(* of changes, reading and searching a mailbox over IMAP, and the view of  *)
(* the webmail. Each is a part of its own, chosen in the initial state;    *)
(* the variables of the IMAP connections keep one value in the others.     *)
(***************************************************************************)
EXTENDS ImapSession, TLC

VARIABLES part, s

\* The mailboxes of the IMAP connections are interchangeable.
Symmetric == Permutations(Mailboxes)

-----------------------------------------------------------------------------
Sets == INSTANCE ImapSets

FetchCommand(isUID, nums, changed, vanished, mark) ==
  [isUID |-> isUID, nums |-> nums, changed |-> changed, vanished |-> vanished, mark |-> mark]
SomeFetches ==
  LET all == Sets!NumSet(<<Sets!Span(1, Sets!Star)>>)
  IN  {FetchCommand(TRUE, all, TRUE, TRUE, FALSE), FetchCommand(TRUE, all, FALSE, FALSE, TRUE),
       FetchCommand(FALSE, Sets!NumSet(<<Sets!Single(Sets!Star)>>), FALSE, FALSE, FALSE),
       FetchCommand(TRUE, Sets!NumSet(<<Sets!Span(3, 2)>>), TRUE, TRUE, FALSE),
       FetchCommand(FALSE, Sets!NumSet(<<Sets!Span(2, 1)>>), TRUE, FALSE, TRUE),
       FetchCommand(TRUE, Sets!SearchResult, FALSE, FALSE, FALSE),
       FetchCommand(TRUE, Sets!SearchResult, TRUE, TRUE, FALSE)}

SearchCommand(isUID, other, eargs, save, keys) ==
  [isUID |-> isUID, other |-> other, eargs |-> eargs, save |-> save, keys |-> keys]
SomeSearches ==
  LET key(op) == [op |-> op]
      not(k) == [op |-> "NOT", key |-> k]
      in(op, set) == [op |-> op, set |-> set]
      seenOrLast == {[op |-> "OR", key |-> key("SEEN"),
                      key2 |-> in("SEQ", Sets!NumSet(<<Sets!Span(Sets!Star, 2)>>))]}
      wordFromTwo == {in("UID", Sets!NumSet(<<Sets!Span(2, Sets!Star)>>)), key("BODY")}
  IN  {SearchCommand(TRUE, TRUE, eargs, FALSE, seenOrLast) : eargs \in {{"MIN"}, {"MAX"}}}
        \cup {SearchCommand(isUID, FALSE, {"MIN", "MAX"}, FALSE, seenOrLast) : isUID \in BOOLEAN}
        \cup {SearchCommand(FALSE, FALSE, {"MAX"}, FALSE, wordFromTwo),
              SearchCommand(TRUE, FALSE, {"MAX", "COUNT"}, FALSE, wordFromTwo),
              SearchCommand(TRUE, TRUE, {"ALL"}, FALSE, {[op |-> "MODSEQ", modseq |-> 4]}),
              SearchCommand(TRUE, FALSE, {}, TRUE, {not(key("SEEN"))}),
              SearchCommand(FALSE, FALSE, {"MIN"}, TRUE, {in("SEQ", Sets!SearchResult), not(key("BODY"))})}

\* All sets of one range, and some of two, with numbers up to 5 and "*".
SomeNumSets ==
  LET numbers == Sets!Star .. 5
      ranges == {Sets!Single(n) : n \in numbers}
                  \cup {Sets!Span(m, n) : m, n \in numbers}
  IN  {Sets!NumSet(<<r>>) : r \in ranges}
        \cup {Sets!NumSet(<<r, q>>) :
                r \in {Sets!Span(Sets!Star, 2), Sets!Span(3, 1), Sets!Single(2), Sets!Span(5, Sets!Star)},
                q \in ranges}

\* Words, and texts in which they are found across the border of the search buffer;
\* 101 is the upper case of 1.
SomeLooks ==
  LET plain(header, body) == [header |-> header, media |-> "TEXT", body |-> body, parts |-> <<>>]
      texts == UNION {[1 .. n -> {1, 2, 101}] : n \in 0 .. 6}
      multipart(a, b) ==
        [header |-> <<1, 2>>, media |-> "MULTIPART", body |-> <<>>, parts |-> <<plain(<<2>>, a), plain(<<2, 2>>, b)>>]
      image == [header |-> <<1, 2>>, media |-> "IMAGE", body |-> <<2, 2>>, parts |-> <<>>]
  IN  [words : {<<>>, << <<1, 2>> >>, << <<101, 1, 2>>, <<2>> >>}, notWords : {<<>>, << <<2, 2>> >>},
       part : {plain(<<>>, t) : t \in texts}
                \cup {multipart(a, b) : a \in {<<>>, <<101, 1, 2>>}, b \in {<<2>>, <<1, 1, 1, 2>>}}
                \cup {image},
       headerToo : BOOLEAN]

Reading ==
  INSTANCE ImapSync WITH
    y <- s, MaxUID <- 3, MaxChanges <- 4, Worded <- {1, 3}, Buffer <- 5, Spare <- 1,
    Fetches <- SomeFetches, Searches <- SomeSearches, NumSets <- SomeNumSets, Looks <- SomeLooks

-----------------------------------------------------------------------------
\* Two mailboxes, one below the other, and one that is left out of views of all
\* mailboxes; a plain message, and one that satisfies each filter.
PlainMessage ==
  [mb |-> 1, thread |-> 1, parents |-> <<>>, collapsed |-> FALSE, recv |-> 1, flags |-> {},
   size |-> 1, parsed |-> TRUE, atts |-> {}, from |-> {}, to |-> {}, subject |-> {},
   headers |-> {}, words |-> {}, gone |-> FALSE]
RichMessage ==
  [PlainMessage EXCEPT
     !.atts = {[mime |-> "pdf", ext |-> "other"]}, !.from = {{"a"}}, !.to = {{"b"}},
     !.subject = {"s"}, !.headers = {<<"h", "v">>}, !.words = {"w"}, !.size = 2]
PlainQuery ==
  [th |-> "off", asc |-> FALSE, mb |-> 1, children |-> FALSE, labels |-> {}, notlabels |-> {},
   oldest |-> 0, newest |-> 0, min |-> 0, max |-> 0, att |-> "", notatt |-> "",
   from |-> {}, notfrom |-> {}, to |-> {}, notto |-> {}, subject |-> {}, notsubject |-> {},
   headers |-> {}, words |-> {}, notwords |-> {}]
Filtered ==
  [PlainQuery EXCEPT
     !.children = TRUE, !.att = "any", !.notatt = "image", !.from = {"a"}, !.notfrom = {"c"},
     !.to = {"b"}, !.subject = {"s"}, !.headers = {<<"h", "">>}, !.words = {"w"},
     !.min = 2, !.max = 2, !.newest = 3, !.oldest = 1]
Viewing ==
  INSTANCE WebmailView WITH
    w <- s,
    Stored <- <<[PlainMessage EXCEPT !.recv = 2],
                [RichMessage EXCEPT !.mb = 2, !.parents = <<1>>, !.recv = 3]>>,
    Arrivals <- {[PlainMessage EXCEPT !.recv = 3],
                 [RichMessage EXCEPT !.thread = 2, !.flags = {"seen"}],
                 [PlainMessage EXCEPT !.mb = 2, !.thread = 2, !.recv = 4, !.parsed = FALSE]},
    Queries <- {[PlainQuery EXCEPT !.th = "on", !.asc = TRUE],
                [PlainQuery EXCEPT !.th = "unread", !.mb = -1], Filtered},
    Children <- <<{2}, {}, {}>>, Excluded <- {3},
    PageCount <- 1, MaxMessages <- 3, MaxChanges <- 1, MaxRequests <- 2

-----------------------------------------------------------------------------
InitClients ==
  /\ Init
  /\ \/ part = "imap" /\ s = <<>>
     \/ part = "reading" /\ Reading!Init
     \/ part = "webmail" /\ Viewing!Init

NextClients ==
  /\ UNCHANGED part
  /\ \/ part = "imap" /\ Next /\ UNCHANGED s
     \/ part = "reading" /\ Reading!Next /\ UNCHANGED vars
     \/ part = "webmail" /\ Viewing!Next /\ UNCHANGED vars

SpecClients == InitClients /\ [][NextClients]_<<vars, part, s>>

-----------------------------------------------------------------------------
\* Reading over IMAP is exact: see CacheExact, SearchExact and SetsAgree of ImapSync.
SyncExact == part = "reading" => Reading!CacheExact /\ Reading!SearchExact /\ Reading!SetsAgree

\* The webmail shows what the mailboxes hold: see ViewInStep of WebmailView.
ViewInStep == part = "webmail" => Viewing!ViewInStep
=============================================================================
