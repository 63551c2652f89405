------------------------------ MODULE ImapSets ------------------------------
(***************************************************************************)
(* Number sets of the IMAP server (imapserver/protocol.go): the message    *)
(* sequence number and UID sets of commands, how the server tests, walks,  *)
(* builds and evaluates them, and the binary search it uses on the sorted  *)
(* UIDs of a session.                                                      *)
(*                                                                         *)
(* A set number is a positive number, or Star for the last message.  A     *)
(* range without a second number has last = None.  The set "$" is the      *)
(* saved result of an earlier SEARCH.                                      *)
(***************************************************************************)
EXTENDS Integers, Sequences, FiniteSets, SequencesExt

Star == 0
None == -1

Single(n) == [first |-> n, last |-> None]
Span(a, b) == [first |-> a, last |-> b]
NumSet(ranges) == [result |-> FALSE, ranges |-> ranges]
SearchResult == [result |-> TRUE, ranges |-> <<>>]

Ranges(ss) == {ss.ranges[i] : i \in DOMAIN ss.ranges}
Between(a, b) == IF a > b THEN b .. a ELSE a .. b
Sorted(S) == SetToSortSeq(S, <)

(* The binary search; 0 when the UID is absent, else its sequence number.  *)
uidSearch(uids, uid) ==
  LET find[s \in 0 .. Len(uids), e \in 0 .. Len(uids)] ==
        IF s >= e THEN 0
        ELSE LET i == (s + e) \div 2
             IN IF uids[i + 1] = uid THEN i + 1
                ELSE IF uid < uids[i + 1] THEN find[s, i]
                ELSE find[i + 1, e]
  IN find[0, Len(uids)]

(* Sequence numbers above the message count stand for the last message.    *)
containsSeqCount(ss, seq, msgCount) ==
  LET clip(n) == IF n = Star \/ n > msgCount THEN msgCount ELSE n
  IN /\ msgCount # 0
     /\ \E r \in Ranges(ss) :
          seq \in Between(clip(r.first),
                          IF r.last = None THEN clip(r.first) ELSE clip(r.last))

containsSeq(ss, seq, uids, saved) ==
  /\ uids # <<>>
  /\ IF ss.result THEN uidSearch(saved, uids[seq]) > 0
     ELSE containsSeqCount(ss, seq, Len(uids))

xcontainsKnownUID(ss, uid, saved, highest) ==
  IF ss.result THEN uidSearch(saved, uid) > 0
  ELSE \E r \in Ranges(ss) :
         LET a == IF r.first = Star THEN highest ELSE r.first
             b == IF r.last = None THEN a
                  ELSE IF r.last = Star THEN highest ELSE r.last
         IN \/ r.first = Star /\ r.last # None /\ uid >= r.last
            \/ r.last = Star /\ uid >= a
            \/ uid \in Between(a, b)

xinterpretStar(ss, last) ==
  LET value(n) == IF n = Star THEN last ELSE n
      plain(r) ==
        LET a == value(r.first)
            b == IF r.last = None THEN a ELSE value(r.last)
        IN IF a = b THEN Single(a)
           ELSE IF a > b THEN Span(b, a) ELSE Span(a, b)
  IN NumSet([i \in DOMAIN ss.ranges |-> plain(ss.ranges[i])])

(* Only for sets of numbers that increase. *)
contains(ss, v) ==
  \E r \in Ranges(ss) :
    r.first = v \/ (r.last # None /\ v > r.first /\ v <= r.last)

isBasicIncreasing(ss) ==
  /\ ~ss.result
  /\ \A i \in DOMAIN ss.ranges :
       LET r == ss.ranges[i]
           p == ss.ranges[i - 1]
           before == IF i = 1 THEN 0 ELSE IF p.last = None THEN p.first ELSE p.last
       IN /\ r.first # Star /\ r.first > before
          /\ r.last # None => r.last # Star /\ r.last >= r.first

(* The numbers the iterator of a range returns, in order. *)
rangeIter(r) ==
  IF r.last = None THEN <<r.first>>
  ELSE IF r.last < r.first THEN <<r.first>>
  ELSE [i \in 1 .. r.last - r.first + 1 |-> r.first + i - 1]

(* The numbers the iterator of a set returns: those of its ranges. *)
newIter(ss) == FoldLeft(LAMBDA l, r : l \o rangeIter(r), <<>>, ss.ranges)

(* Adding a number at the end of a set, to its last range if it is next.   *)
append(ranges, v) ==
  LET n == Len(ranges)
      r == ranges[n]
  IN IF n = 0 THEN <<Single(v)>>
     ELSE IF r.last = None /\ v = r.first + 1 THEN [ranges EXCEPT ![n].last = v]
     ELSE IF r.last # None /\ v = r.last + 1 THEN [ranges EXCEPT ![n].last = v]
     ELSE Append(ranges, Single(v))

(* The ranges of a sorted list: each run of consecutive numbers is one.    *)
compactUIDSet(l) ==
  LET first == Sorted({i \in DOMAIN l : i = 1 \/ l[i] # l[i - 1] + 1})
      last == Sorted({i \in DOMAIN l : i = Len(l) \/ l[i + 1] # l[i] + 1})
      run(i, j) == IF i = j THEN Single(l[i]) ELSE Span(l[i], l[j])
  IN NumSet([k \in DOMAIN first |-> run(first[k], last[k])])

(***************************************************************************)
(* The evaluation of the set of a command to UIDs.  c is the session       *)
(* (uids, uidnext, exists, uidonly, saved) and live the messages in the    *)
(* mailbox that are not expunged.                                          *)
(***************************************************************************)

(* newCachedLastUID: the last message, as far as the session knows it.     *)
LastUID(c, live) ==
  LET known == {u \in live : u < c.uidnext}
  IN IF c.exists = 0 THEN 0
     ELSE IF ~c.uidonly THEN c.uids[Len(c.uids)]
     ELSE IF known = {} THEN 0 ELSE CHOOSE u \in known : \A o \in known : o <= u

(* The saved result without the messages that are gone.                    *)
Refreshed(c, live) ==
  SelectSeq(c.saved, LAMBDA u : IF c.uidonly THEN u \in live
                                ELSE uidSearch(c.uids, u) > 0)

(* A sequence number beyond the last, or "*" without messages, is refused. *)
BadSequence(c, ss) ==
  \E r \in Ranges(ss) :
    \/ c.exists = 0
    \/ r.first # Star /\ r.first > c.exists
    \/ r.last # None /\ r.last # Star /\ r.last > c.exists

SequencesToUIDs(c, ss) ==
  LET at(n) == IF n = Star THEN c.exists ELSE n
  IN UNION {{c.uids[i] : i \in Between(at(r.first),
                                       IF r.last = None THEN at(r.first) ELSE at(r.last))}
            : r \in Ranges(ss)}

xnumSetEval(c, live, isUID, ss) ==
  IF ss.result THEN IF c.exists = 0 THEN <<>> ELSE Refreshed(c, live)
  ELSE IF ~isUID THEN Sorted(SequencesToUIDs(c, ss))
  ELSE IF c.exists = 0 THEN <<>>
  ELSE IF c.uidonly
       THEN Sorted({u \in live : /\ u < c.uidnext
                                 /\ \E r \in Ranges(xinterpretStar(ss, LastUID(c, live))) :
                                      u \in Between(r.first, IF r.last = None THEN r.first ELSE r.last)})
  ELSE LET at(n) == IF n = Star THEN c.uids[Len(c.uids)] ELSE n
       IN Sorted({u \in {c.uids[i] : i \in DOMAIN c.uids} :
                    \E r \in Ranges(ss) :
                      u \in Between(at(r.first), IF r.last = None THEN at(r.first) ELSE at(r.last))})

(***************************************************************************)
(* What a set means: the numbers from the first to the last of each range, *)
(* in either order, "*" being the last message.                            *)
(***************************************************************************)
Denotes(ss, last) ==
  LET value(n) == IF n = Star THEN last ELSE n
  IN UNION {Between(value(r.first), IF r.last = None THEN value(r.first) ELSE value(r.last))
            : r \in Ranges(ss)}

=============================================================================
