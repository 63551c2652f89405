------------------------------ MODULE ImapSync ------------------------------
(***************************************************************************)
(* Reading a mailbox over IMAP: resynchronising a client's cache with      *)
(* SELECT (QRESYNC), UID FETCH with CHANGEDSINCE and VANISHED, FETCH that  *)
(* marks messages as seen, and SEARCH with its result options and saved    *)
(* result (imapserver/server.go, fetch.go, search.go).                     *)
(*                                                                         *)
(* One session works on one mailbox that others change meanwhile.  The UID *)
(* of a message is its position in msgs; expunged messages keep their      *)
(* record, the code never removes these (HighestDeletedModSeq stays -1),   *)
(* so the branches for a history that is incomplete are left out.          *)
(***************************************************************************)
EXTENDS ImapSets

CONSTANTS MaxUID,       \* UIDs that are handed out.
          MaxChanges,   \* Changes others make to the mailbox.
          Fetches,      \* FETCH commands: [isUID, nums, changed, vanished, mark].
          Searches,     \* SEARCH commands: [isUID, other, eargs, save, keys].
          Worded,       \* UIDs of messages that have the word of BODY searches.
          NumSets,      \* Number sets whose handling is compared.
          Looks,        \* Word searches: [words, notWords, part, headerToo].
          Buffer,       \* Bytes of the search buffer: 8 KB or more in the code.
          Spare         \* Bytes kept beyond the longest word: 6 in the code.

VARIABLE y

UIDs == DOMAIN y.msgs
LiveIn(msgs) == {u \in DOMAIN msgs : ~msgs[u].expunged}
Live == LiveIn(y.msgs)
Nothing == [op |-> "none"]

(* The session, see type conn: what of the mailbox it knows.               *)
Deselected(c) ==
  [c EXCEPT !.selected = FALSE, !.uids = <<>>, !.uidnext = 0, !.exists = 0, !.saved = <<>>]

Init ==
  \/ \E uidonly \in BOOLEAN :
       y = [area |-> "session", msgs |-> <<>>, modseq |-> 1, changes |-> 0,
            c |-> [selected |-> FALSE, uidonly |-> uidonly, uids |-> <<>>,
                   uidnext |-> 0, exists |-> 0, saved |-> <<>>],
            client |-> [cache |-> <<>>, modseq |-> 1, next |-> 1, honest |-> TRUE],
            seen |-> {}, out |-> Nothing]
  \/ \E ss \in NumSets, uids \in SUBSET (1 .. MaxUID) :
       y = [area |-> "sets", ss |-> ss, uids |-> uids]
  \/ \E look \in Looks : y = [area |-> "words", look |-> look]

Ready == y.area = "session" /\ y.out = Nothing

(* The response of the last command is written. *)
Answered ==
  /\ y.area = "session" /\ y.out # Nothing
  /\ y' = [y EXCEPT !.out = Nothing]

(***************************************************************************)
(* Changes by others, each with a modification sequence of its own.        *)
(***************************************************************************)
Others ==
  /\ Ready
  /\ y.changes < MaxChanges
  /\ LET next == y.modseq + 1
         Change(msgs) == y' = [y EXCEPT !.msgs = msgs, !.modseq = next,
                                        !.changes = @ + 1]
     IN \/ /\ Len(y.msgs) < MaxUID
           /\ Change(Append(y.msgs, [modseq |-> next, seen |-> FALSE, expunged |-> FALSE]))
        \/ \E u \in Live :
             Change([y.msgs EXCEPT ![u] = [modseq |-> next, seen |-> ~y.msgs[u].seen, expunged |-> FALSE]])
        \/ \E u \in Live :
             Change([y.msgs EXCEPT ![u] = [@ EXCEPT !.modseq = next, !.expunged = TRUE]])

(* The session's pending changes are written to the client, at a NOOP, see *)
(* module ImapSession: the client then has the mailbox as it is.           *)
Noop ==
  /\ Ready /\ y.c.selected /\ y.seen = {}
  /\ y' = [y EXCEPT !.c.uids = IF y.c.uidonly THEN <<>> ELSE Sorted(Live),
                    !.c.uidnext = Len(y.msgs) + 1,
                    !.c.exists = Cardinality(Live),
                    !.client = [cache |-> [u \in Live |-> y.msgs[u].seen], modseq |-> y.modseq,
                                next |-> Len(y.msgs) + 1, honest |-> TRUE]]

(* The connection ends.  The client keeps its cache; one that lost track   *)
(* has a removed message in it that it should know is gone.                *)
Disconnect ==
  /\ Ready /\ y.c.selected /\ y.seen = {}
  /\ \E lost \in {{}} \cup {S \in SUBSET (UIDs \ Live) :
                               Cardinality(S) \in 1 .. 2 /\ \A u \in S : y.msgs[u].modseq <= y.client.modseq} :
       y' = [y EXCEPT !.c = Deselected(@),
                      !.client = [@ EXCEPT !.cache = [u \in DOMAIN @ \cup lost |->
                                                        IF u \in DOMAIN @ THEN @[u] ELSE y.msgs[u].seen],
                                           !.honest = @ /\ lost = {}]]

(***************************************************************************)
(* SELECT with QRESYNC.  qr is [modseq, known, seqs, uids]: the UIDs that  *)
(* are known, <<>> if not given, and the sequence numbers and UIDs of      *)
(* sample messages, are number sets.                                       *)
(***************************************************************************)

(* Reading the messages of the mailbox into the session. *)
Selected(c, msgs) ==
  [c EXCEPT !.selected = TRUE, !.uidnext = Len(msgs) + 1,
            !.uids = IF c.uidonly THEN <<>> ELSE Sorted(LiveIn(msgs)),
            !.exists = Cardinality(LiveIn(msgs)), !.saved = <<>>]

(* The first sample that the session does not have at that number; one     *)
(* past the last if it has all.                                            *)
Mismatch(c, qr) ==
  LET seqs == newIter(qr.seqs)
      uids == newIter(qr.uids)
      bad == {k \in DOMAIN seqs : seqs[k] > c.exists \/ c.uids[seqs[k]] # uids[k]}
  IN IF bad = {} THEN Len(seqs) + 1 ELSE CHOOSE k \in bad : \A o \in bad : k <= o

(* As preVanished, but the samples after a mismatch count as well. *)
preVanishedAny(uids, k) == IF uids = <<>> THEN 0 ELSE uids[Len(uids)] + 1

(* With k the mismatch: the UID below which the client misses no removal.  *)
preVanished(uids, k) == IF k = 1 THEN 0 ELSE uids[k - 1] + 1

(* The sample the client has and the mailbox has not. *)
oldClientUID(c, uids, k) ==
  IF k > Len(uids) THEN 0
  ELSE IF uidSearch(c.uids, uids[k]) <= 0 THEN uids[k] ELSE 0

(* It was gone at the modseq the client claims: changes are sent from just *)
(* before its removal, about all messages.                                 *)
Inconsistent(qr, msgs, old) ==
  /\ old > 0 /\ old \in DOMAIN msgs
  /\ msgs[old].expunged /\ qr.modseq >= msgs[old].modseq

(* The messages that are reported, as changed or as vanished. *)
Reported(c, qr, msgs, old, pre) ==
  LET alert == Inconsistent(qr, msgs, old)
      since == IF alert THEN msgs[old].modseq - 1 ELSE qr.modseq
  IN {u \in DOMAIN msgs :
        /\ u < c.uidnext
        /\ msgs[u].modseq > since
        /\ alert \/ ~(msgs[u].expunged /\ u < pre)
        /\ alert \/ qr.known = <<>> \/ contains(qr.known, u)}

(* The client takes over what it is told. *)
Apply(cache, fetched, vanished, msgs) ==
  [u \in (DOMAIN cache \ vanished) \cup fetched |->
     IF u \in fetched THEN msgs[u].seen ELSE cache[u]]

(* The parameters a client may send: the UIDs it has, and some of them     *)
(* with their sequence numbers as samples.  With UIDONLY samples are       *)
(* refused.  A client that sends its UIDs is told about these only, and    *)
(* fetches the messages that are new to it next.                           *)
NoSamples == [seqs |-> NumSet(<<>>), uids |-> NumSet(<<>>)]
Samples(have, sample) ==
  [seqs |-> compactUIDSet(Sorted({i \in DOMAIN have : have[i] \in sample})),
   uids |-> compactUIDSet(Sorted(sample))]

Resyncs(client, uidonly) ==
  LET uids == DOMAIN client.cache
      samples == {NoSamples} \cup (IF uidonly THEN {} ELSE {Samples(Sorted(uids), S) : S \in SUBSET uids \ {{}}})
      knowns == {<<>>} \cup (IF uids = {} THEN {} ELSE {compactUIDSet(Sorted(uids))})
  IN {[modseq |-> client.modseq, known |-> k, seqs |-> p.seqs, uids |-> p.uids] : k \in knowns, p \in samples}

Resync ==
  /\ Ready /\ ~y.c.selected
  /\ \E qr \in Resyncs(y.client, y.c.uidonly), c \in {Selected(y.c, y.msgs)} :
     \E k \in {Mismatch(c, qr)}, uids \in {newIter(qr.uids)} :
       LET old == oldClientUID(c, uids, k)
           told == Reported(c, qr, y.msgs, old, preVanished(uids, k))
           gone == {u \in told : y.msgs[u].expunged}
           new == IF qr.known = <<>> THEN {} ELSE {u \in Live : u >= y.client.next}
       IN y' = [y EXCEPT !.c = c,
                         !.client = [@ EXCEPT !.cache = Apply(@, (told \ gone) \cup new, gone, y.msgs),
                                              !.modseq = y.modseq, !.next = c.uidnext],
                         !.out = [op |-> "resync", alert |-> Inconsistent(qr, y.msgs, old), gone |-> gone]]

(***************************************************************************)
(* FETCH.  The messages are determined and read in one read transaction,   *)
(* those to be marked as seen are marked later, in a write transaction.    *)
(***************************************************************************)

(* With CHANGEDSINCE: the changed messages of the mailbox that are in the  *)
(* set, the removed ones too for VANISHED.                                 *)
ChangedUIDs(c, msgs, f, since) ==
  {u \in DOMAIN msgs :
     /\ msgs[u].modseq > since
     /\ f.vanished \/ ~msgs[u].expunged
     /\ u < c.uidnext
     /\ IF f.isUID THEN xcontainsKnownUID(f.nums, u, c.saved, c.uidnext - 1)
        ELSE uidSearch(c.uids, u) > 0 /\ containsSeq(f.nums, uidSearch(c.uids, u), c.uids, c.saved)}

(* The messages a FETCH returns. *)
FetchUIDs(c, msgs, f, since) ==
  IF f.changed THEN {u \in ChangedUIDs(c, msgs, f, since) : ~msgs[u].expunged}
  ELSE LET uids == xnumSetEval(c, LiveIn(msgs), f.isUID, f.nums) IN {uids[i] : i \in DOMAIN uids}

(* A message whose body is fetched without PEEK becomes seen. *)
peekOrSeen(f, m) == f.mark /\ ~m.seen

FetchAllowed(c, f) ==
  /\ c.uidonly => f.isUID
  /\ f.vanished => f.changed /\ f.isUID
  /\ ~f.isUID /\ ~f.changed /\ ~f.nums.result => ~BadSequence(c, f.nums)

Fetch ==
  /\ Ready /\ y.c.selected /\ y.seen = {}
  /\ \E f \in {f \in Fetches : FetchAllowed(y.c, f)} :
       LET since == y.client.modseq
           uids == FetchUIDs(y.c, y.msgs, f, since)
           gone == IF f.changed THEN {u \in ChangedUIDs(y.c, y.msgs, f, since) : y.msgs[u].expunged} ELSE {}
           refresh == f.nums.result /\ ~f.changed /\ y.c.exists # 0
       IN y' = [y EXCEPT !.c.saved = IF refresh THEN Refreshed(y.c, Live) ELSE @,
                         !.client.cache = Apply(@, uids, gone, y.msgs),
                         !.seen = {u \in uids : peekOrSeen(f, y.msgs[u])},
                         !.out = [op |-> "fetch", f |-> f, since |-> since, uids |-> uids, gone |-> gone,
                                  unknown |-> ~y.c.uidonly /\ \E u \in uids : uidSearch(y.c.uids, u) <= 0]]

(* Marking as seen what was returned: not messages removed meanwhile, nor  *)
(* those that were marked meanwhile.                                       *)
MarkSeen ==
  /\ Ready /\ y.seen # {}
  /\ LET next == y.modseq + 1
         mark == {u \in y.seen : ~y.msgs[u].expunged /\ ~y.msgs[u].seen}
     IN y' = [y EXCEPT !.msgs = [u \in UIDs |-> IF u \in mark
                                   THEN [modseq |-> next, seen |-> TRUE, expunged |-> FALSE] ELSE y.msgs[u]],
                       !.modseq = IF mark = {} THEN @ ELSE next,
                       !.seen = {}]

(***************************************************************************)
(* SEARCH.  Keys are records with an op; s is [selected, seq, count, high, *)
(* saved]: what is known of the message's place in its mailbox.            *)
(***************************************************************************)
RECURSIVE hasSequenceNumbers(_)
hasSequenceNumbers(k) ==
  \/ k.op = "SEQ" /\ ~k.set.result
  \/ k.op = "NOT" /\ hasSequenceNumbers(k.key)
  \/ k.op = "OR" /\ (hasSequenceNumbers(k.key) \/ hasSequenceNumbers(k.key2))

RECURSIVE usesResult(_)
usesResult(k) ==
  \/ k.op \in {"SEQ", "UID"} /\ k.set.result
  \/ k.op = "NOT" /\ usesResult(k.key)
  \/ k.op = "OR" /\ (usesResult(k.key) \/ usesResult(k.key2))

RECURSIVE match0(_, _, _, _)
match0(k, s, u, m) ==
  CASE k.op = "SEQ" -> IF k.set.result THEN uidSearch(s.saved, u) > 0
                       ELSE containsSeqCount(k.set, s.seq, s.count)
    [] k.op = "ALL" -> TRUE
    [] k.op = "NOT" -> ~match0(k.key, s, u, m)
    [] k.op = "OR" -> match0(k.key, s, u, m) \/ match0(k.key2, s, u, m)
    [] k.op = "UID" -> xcontainsKnownUID(k.set, u, s.saved, s.high)
    [] k.op = "SEEN" -> m.seen
    [] k.op = "MODSEQ" -> m.modseq >= k.modseq
    [] k.op = "BODY" -> u \in Worded

(* The word searches of the top level are taken out, to search a message   *)
(* once for all of them.                                                   *)
IsWord(k) == k.op = "BODY"
IsNotWord(k) == k.op = "NOT" /\ k.key.op = "BODY"

match(keys, s, u, m) ==
  LET rest == {k \in keys : ~IsWord(k) /\ ~IsNotWord(k)}
  IN /\ \A k \in rest : match0(k, s, u, m)
     /\ (\E k \in keys : IsWord(k)) => u \in Worded
     /\ (\E k \in keys : IsNotWord(k)) => u \notin Worded

(* The messages that are looked at: of the selected mailbox those the      *)
(* session knows.                                                          *)
Visible(c, msgs, other) == {u \in LiveIn(msgs) : other \/ u < c.uidnext}

Place(c, msgs, other, u) ==
  LET visible == Visible(c, msgs, other)
      high == CHOOSE h \in visible : \A o \in visible : o <= h
  IN [seq |-> IF other THEN Cardinality({o \in visible : o <= u})
              ELSE IF c.uidonly THEN 0 ELSE uidSearch(c.uids, u),
      count |-> IF other \/ c.uidonly THEN Cardinality(LiveIn(msgs)) ELSE c.exists,
      high |-> high, saved |-> c.saved]

searchMatch(c, msgs, q, u) ==
  LET s == Place(c, msgs, q.other, u)
  IN (q.other \/ c.uidonly \/ s.seq # 0) /\ match(q.keys, s, u, msgs[u])

(* Sequence numbers are of a mailbox that is not selected: messages must   *)
(* be counted from the first.                                              *)
needSeq(q) == q.other /\ \E k \in q.keys : hasSequenceNumbers(k)

(* The matches that are collected: walking forward until the first match   *)
(* if only MIN (and MAX) is asked, and backward for MAX, unless sequence   *)
(* numbers of another mailbox are needed.                                  *)
SearchUIDs(c, msgs, q) ==
  LET hits == Sorted({u \in Visible(c, msgs, q.other) : searchMatch(c, msgs, q, u)})
      n == Len(hits)
      min1 == "MIN" \in q.eargs
      only == q.eargs # {} /\ q.eargs \subseteq {"MIN", "MAX"}
      forward == q.eargs # {"MAX"} \/ needSeq(q)
      reverse == "MAX" \in q.eargs /\ only /\ ~needSeq(q)
      walked == IF ~forward THEN <<>>
                ELSE IF min1 /\ only /\ n > 0
                     THEN IF ~needSeq(q) THEN <<hits[1]>>
                          ELSE IF n > 2 THEN <<hits[1], hits[n]>> ELSE hits
                ELSE hits
      lastUID == IF walked = <<>> THEN 0 ELSE walked[Len(walked)]
  IN IF reverse /\ n > 0 /\ hits[n] > lastUID THEN Append(walked, hits[n]) ELSE walked

SearchAllowed(c, q) ==
  /\ c.uidonly => q.isUID /\ ~\E k \in q.keys : hasSequenceNumbers(k)
  /\ q.other => q.isUID /\ ~q.save /\ q.eargs # {} /\ ~\E k \in q.keys : usesResult(k)

(* The response: numbers are UIDs or, of the session, sequence numbers.    *)
Search ==
  /\ Ready /\ y.seen = {}
  /\ \E q \in {q \in Searches : SearchAllowed(y.c, q) /\ q.other = ~y.c.selected} :
     \E start \in {IF q.save THEN [y.c EXCEPT !.saved = <<>>] ELSE y.c} :
     \E uids \in {SearchUIDs(start, y.msgs, q)} :
       LET unknown == ~q.isUID /\ \E i \in DOMAIN uids : uidSearch(y.c.uids, uids[i]) <= 0
           nums == IF q.isUID THEN uids ELSE [i \in DOMAIN uids |-> uidSearch(y.c.uids, uids[i])]
       IN y' = [y EXCEPT !.c.saved = IF q.save THEN uids ELSE @,
                         !.out = [op |-> "search", q |-> q, nums |-> nums, unknown |-> unknown,
                                  saved |-> start.saved, all |-> compactUIDSet(nums)]]

Next == Answered \/ Others \/ Noop \/ Disconnect \/ Resync \/ Fetch \/ MarkSeen \/ Search

Spec == Init /\ [][Next]_y

(***************************************************************************)
(* Searching words in a message (store/search.go), as SEARCH and the       *)
(* webmail do: all words must occur, no not-word may.  Text is read in     *)
(* pieces of a buffer; the end of a piece is kept so that a word over the  *)
(* border of two pieces is found.  A text is a sequence of characters of   *)
(* one byte, a part is [header, media, body, parts].                       *)
(***************************************************************************)
(* Characters are numbers; an upper case one is 100 above its lower case.  *)
toLower(text) == [i \in DOMAIN text |-> IF text[i] > 100 THEN text[i] - 100 ELSE text[i]]

Occurs(word, text) ==
  \E i \in 0 .. Len(text) - Len(word) : \A k \in DOMAIN word : text[i + k] = word[k]

Ending(text, n) == SubSeq(text, Len(text) - n + 1, Len(text))

PrepareWordSearch(words, notWords) ==
  LET lengths == {Len(words[i]) : i \in DOMAIN words} \cup {Len(notWords[i]) : i \in DOMAIN notWords}
      longest == CHOOSE n \in lengths \cup {0} : \A o \in lengths : o <= n
  IN [words |-> [i \in DOMAIN words |-> toLower(words[i])],
      notWords |-> [i \in DOMAIN notWords |-> toLower(notWords[i])],
      keep |-> longest + Spare]

isQuickHit(ws, seen) == seen = DOMAIN ws.words /\ ws.notWords = <<>>

(* One reader, piece by piece, until all words were seen and no not-word   *)
(* has to be looked for, a not-word occurs, or the text ends.              *)
RECURSIVE searchPieces(_, _, _, _)
searchPieces(ws, kept, rest, seen) ==
  LET room == Buffer - Len(kept)
      full == Len(rest) >= room
      piece == kept \o (IF full THEN SubSeq(rest, 1, room) ELSE rest)
      lower == toLower(piece)
      now == seen \cup {i \in DOMAIN ws.words : Occurs(ws.words[i], lower)}
  IN IF isQuickHit(ws, now) /\ now # seen THEN [miss |-> FALSE, seen |-> now]
     ELSE IF \E i \in DOMAIN ws.notWords : Occurs(ws.notWords[i], lower)
          THEN [miss |-> TRUE, seen |-> now]
     ELSE IF ~full THEN [miss |-> FALSE, seen |-> now]
     ELSE searchPieces(ws, Ending(piece, ws.keep), SubSeq(rest, room + 1, Len(rest)), now)

searchReader(ws, text, seen) == searchPieces(ws, <<>>, text, seen)

(* A part: its header if asked, its body if it is text, its parts, until   *)
(* the outcome is known.                                                   *)
RECURSIVE matchPart(_, _, _, _)
matchPart(ws, p, headerToo, seen) ==
  LET h == IF headerToo THEN searchReader(ws, p.header, seen) ELSE [miss |-> FALSE, seen |-> seen]
      b == searchReader(ws, p.body, h.seen)
      Over(r) == r.miss \/ isQuickHit(ws, r.seen)
      parts[i \in 0 .. Len(p.parts)] ==
        IF i = 0 THEN [miss |-> FALSE, seen |-> h.seen]
        ELSE IF Over(parts[i - 1]) THEN parts[i - 1]
        ELSE matchPart(ws, p.parts[i], headerToo, parts[i - 1].seen)
  IN IF headerToo /\ Over(h) THEN h
     ELSE IF p.parts # <<>> THEN parts[Len(p.parts)]
     ELSE IF p.media # "TEXT" THEN h
     ELSE b

MatchPart(ws, p, headerToo) ==
  LET r == matchPart(ws, p, headerToo, {})
  IN ~r.miss /\ r.seen = DOMAIN ws.words

(* The texts of a part that are searched. *)
RECURSIVE Texts(_, _)
Texts(p, headerToo) ==
  (IF headerToo THEN {p.header} ELSE {})
    \cup (IF p.parts = <<>> /\ p.media = "TEXT" THEN {p.body} ELSE {})
    \cup UNION {Texts(p.parts[i], headerToo) : i \in DOMAIN p.parts}

(* What the search promises: every word occurs in one of the texts, and no *)
(* not-word does.                                                          *)
Matches(words, notWords, p, headerToo) ==
  LET texts == Texts(p, headerToo)
      In(w) == \E t \in texts : Occurs(toLower(w), toLower(t))
  IN /\ \A i \in DOMAIN words : In(words[i])
     /\ \A i \in DOMAIN notWords : ~In(notWords[i])

(***************************************************************************)
(* Properties.                                                             *)
(***************************************************************************)

(* A client that lost nothing has exactly the mailbox in its cache, flags  *)
(* included, after SELECT with QRESYNC, whatever it sends of what it knows *)
(* and whatever changed since (server.go, cmdSelectExamine); and exactly   *)
(* the messages the session knows after UID FETCH 1:* with CHANGEDSINCE    *)
(* and VANISHED (fetch.go, cmdxFetch).  The connection is never ended for  *)
(* a message that the session does not know.                               *)
CacheExact ==
  y.area = "session" =>
    LET Exact(S) == /\ DOMAIN y.client.cache \cap S = Live \cap S
                    /\ \A u \in Live \cap S : y.client.cache[u] = y.msgs[u].seen
    IN /\ y.out.op = "resync" /\ y.client.honest => Exact(1 .. MaxUID)
       /\ y.out.op = "fetch" =>
            /\ ~y.out.unknown
            /\ y.client.honest /\ y.out.f.vanished /\ y.out.f.nums = NumSet(<<Span(1, Star)>>)
                 => Exact(1 .. y.c.uidnext - 1)

(* What a search key means, for message u of the messages M in sight.      *)
RECURSIVE Holds(_, _, _, _)
Holds(k, u, M, saved) ==
  LET last == CHOOSE h \in M : \A o \in M : o <= h
      seq == IF y.c.selected /\ ~y.c.uidonly THEN uidSearch(y.c.uids, u) ELSE Cardinality({o \in M : o <= u})
      count == IF y.c.selected /\ ~y.c.uidonly THEN Len(y.c.uids) ELSE Cardinality(M)
  IN CASE k.op = "SEQ" -> IF k.set.result THEN u \in saved ELSE seq \in Denotes(k.set, count)
       [] k.op = "UID" -> IF k.set.result THEN u \in saved ELSE u \in Denotes(k.set, last)
       [] k.op = "ALL" -> TRUE
       [] k.op = "NOT" -> ~Holds(k.key, u, M, saved)
       [] k.op = "OR" -> Holds(k.key, u, M, saved) \/ Holds(k.key2, u, M, saved)
       [] k.op = "SEEN" -> y.msgs[u].seen
       [] k.op = "MODSEQ" -> y.msgs[u].modseq >= k.modseq
       [] k.op = "BODY" -> u \in Worded

(* SEARCH answers with the first, the last, the number and all of the      *)
(* messages that match, although it stops early or walks backward for MIN  *)
(* and MAX, and saves the messages it returns (search.go, cmdxSearch).     *)
(* For searches without a UID range "*:*", see SetsAgree.                  *)
SearchExact ==
  y.area = "session" /\ y.out.op = "search" =>
    LET q == y.out.q
        M == Visible(y.c, y.msgs, q.other)
        saved == {y.out.saved[i] : i \in DOMAIN y.out.saved}
        hits == Sorted({u \in M : \A k \in q.keys : Holds(k, u, M, saved)})
        exact == IF q.isUID THEN hits ELSE [i \in DOMAIN hits |-> uidSearch(y.c.uids, hits[i])]
        n == Len(exact)
        nums == y.out.nums
        only == q.eargs # {} /\ q.eargs \subseteq {"MIN", "MAX"}
    IN /\ ~y.out.unknown
       /\ (nums = <<>>) = (hits = <<>>)
       /\ "MIN" \in q.eargs /\ n > 0 => nums[1] = exact[1]
       /\ "MAX" \in q.eargs /\ n > 0 => nums[Len(nums)] = exact[n]
       /\ ~only => nums = exact /\ newIter(y.out.all) = exact
       /\ q.save => LET kept == {y.c.saved[i] : i \in DOMAIN y.c.saved}
                    IN IF ~only THEN y.c.saved = hits
                       ELSE kept = {hits[i] : i \in {j \in {1, n} \cap 1 .. n :
                                       (j = 1 /\ "MIN" \in q.eargs) \/ (j = n /\ "MAX" \in q.eargs)}}

(* The ways the server tests, walks, builds and evaluates number sets      *)
(* agree with what a set means and with each other, on sets with stars,    *)
(* reversed and overlapping ranges (protocol.go, server.go xnumSetEval);   *)
(* and a word is found wherever it is in a text that is read in pieces     *)
(* (store/search.go).  One set is not tested like that: every known UID is *)
(* in a range "*:*" for xcontainsKnownUID, not only the last.              *)
SetsAgree ==
  /\ y.area = "sets" =>
       LET l == Sorted(y.uids)
           n == Len(l)
           compact == compactUIDSet(l)
           c(uidonly) == [uidonly |-> uidonly, uids |-> l, exists |-> n, uidnext |-> MaxUID + 1, saved |-> <<>>]
           means == Denotes(y.ss, l[n])
       IN /\ newIter(compact) = l /\ isBasicIncreasing(compact)
          /\ compact.ranges = FoldLeft(append, <<>>, l)
          /\ \A u \in 1 .. MaxUID + 1 : /\ contains(compact, u) = (u \in y.uids)
                                        /\ (uidSearch(l, u) > 0) = (u \in y.uids)
          /\ n > 0 =>
               /\ \A u \in y.uids : xcontainsKnownUID(y.ss, u, <<>>, l[n]) =
                                      (u \in means \/ Span(Star, Star) \in Ranges(y.ss))
               /\ \A uidonly \in BOOLEAN :
                    xnumSetEval(c(uidonly), y.uids, TRUE, y.ss) = Sorted(y.uids \cap means)
               /\ ~BadSequence(c(FALSE), y.ss) =>
                    xnumSetEval(c(FALSE), y.uids, FALSE, y.ss)
                      = Sorted({l[i] : i \in {i \in 1 .. n : containsSeqCount(y.ss, i, n)}})
  /\ y.area = "words" =>
       MatchPart(PrepareWordSearch(y.look.words, y.look.notWords), y.look.part, y.look.headerToo)
         = Matches(y.look.words, y.look.notWords, y.look.part, y.look.headerToo)

=============================================================================
