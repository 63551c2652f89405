-------------------------------- MODULE Dkim --------------------------------
(***************************************************************************)
(* DKIM signatures (dkim/dkim.go): signing of an outgoing message with the *)
(* selectors of a domain, changes to the message in transit, and           *)
(* verification by the receiver with the record in DNS.                    *)
(*                                                                         *)
(* The body and the values of headers are sequences of tokens: "x" and "y" *)
(* for text, "s" for a space or tab, "n" for CRLF. A hash is the sequence  *)
(* that is hashed: different content has different hashes.                 *)
(***************************************************************************)
EXTENDS Integers, Sequences, SequencesExt, FiniteSets

CONSTANTS
  Bodies,       \* Bodies of messages: empty or ending in CRLF.
  Selectors,    \* Records: headerRelaxed, bodyRelaxed, seal, headers, expiration (0 is none).
  DNSRecords,   \* Answers to the question for the key.
  MaxChanges    \* Bound: changes in transit.

VARIABLE k

H(key, lkey, val) == [key |-> key, lkey |-> lkey, val |-> val]

-----------------------------------------------------------------------------
(* Canonicalization.                                                       *)

\* Lines, each with its CRLF if it has one.
Lines(body) ==
  LET add(ls, t) == IF ls = <<>> \/ Last(Last(ls)) = "n" THEN Append(ls, <<t>>)
                    ELSE Append(Front(ls), Append(Last(ls), t))
  IN  FoldLeft(add, <<>>, body)

Repeat(t, n) == [i \in 1..n |-> t]
HasCRLF(line) == Last(line) = "n"
Text(line) == IF HasCRLF(line) THEN Front(line) ELSE line

\* CRLFs are written when more text follows, and one at the end.
bodySimple(body) ==
  LET step(a, line) == [out |-> IF Text(line) = <<>> THEN a.out ELSE a.out \o Repeat("n", a.ncrlf) \o Text(line),
                        ncrlf |-> (IF Text(line) = <<>> THEN a.ncrlf ELSE 0) + (IF HasCRLF(line) THEN 1 ELSE 0)]
  IN  Append(FoldLeft(step, [out |-> <<>>, ncrlf |-> 0], Lines(body)).out, "n")

\* Space at the end.
RECURSIVE TrimRight(_)
TrimRight(t) == IF t # <<>> /\ Last(t) = "s" THEN TrimRight(Front(t)) ELSE t

\* Runs of space as one space. prev is the text before, and returned.
Collapse(prev, t) ==
  LET step(a, c) == IF c = "s" /\ a.prev = "s" THEN a ELSE [prev |-> c, out |-> Append(a.out, c)]
  IN  FoldLeft(step, [prev |-> prev, out |-> <<>>], t)

\* Lines without text are kept back, and dropped at the end of the body.
\* As bodyRelaxed, but with space at the end of lines.
bodyRelaxedSpace(body) ==
  LET step(a, line) ==
        LET c == Collapse(a.prev, Text(line))
            stash == a.stash \o c.out \o (IF HasCRLF(line) THEN <<"n">> ELSE <<>>)
            empty == ToSet(Text(line)) \subseteq {"s"}
        IN  [prev |-> c.prev, out |-> IF empty THEN a.out ELSE a.out \o stash, stash |-> IF empty THEN stash ELSE <<>>]
      r == FoldLeft(step, [prev |-> "", out |-> <<>>, stash |-> <<>>], Lines(body))
  IN  IF body # <<>> /\ Last(body) # "n" THEN Append(r.out, "n") ELSE r.out

bodyRelaxed(body) ==
  LET step(a, line) ==
        LET c == Collapse(a.prev, IF HasCRLF(line) THEN TrimRight(Text(line)) ELSE Text(line))
            stash == a.stash \o c.out \o (IF HasCRLF(line) THEN <<"n">> ELSE <<>>)
            empty == ToSet(Text(line)) \subseteq {"s"}
        IN  [prev |-> c.prev, out |-> IF empty THEN a.out ELSE a.out \o stash, stash |-> IF empty THEN stash ELSE <<>>]
      r == FoldLeft(step, [prev |-> "", out |-> <<>>, stash |-> <<>>], Lines(body))
  IN  IF body # <<>> /\ Last(body) # "n" THEN Append(r.out, "n") ELSE r.out

bodyHash(simple, body) == IF simple THEN bodySimple(body) ELSE bodyRelaxed(body)

\* Key in lower case; value unfolded, with single spaces, none at the sides.
relaxedCanonicalHeader(h) ==
  LET text(t) == t # "n"
      v == Collapse("", SelectSeq(h.val, text)).out
      w == IF v # <<>> /\ Head(v) = "s" THEN Tail(v) ELSE v
  IN  H(h.lkey, h.lkey, TrimRight(w))

\* The signed headers: for each name, the last one in the message that was not used yet.
dataHash(simple, signed, hdrs) ==
  LET canonical(h) == IF simple THEN h ELSE relaxedCanonicalHeader(h)
      step(a, lkey) ==
        LET is == {i \in DOMAIN hdrs \ a.used : hdrs[i].lkey = lkey}
            i == CHOOSE i \in is : \A j \in is : j <= i
        IN  IF is = {} THEN a ELSE [used |-> a.used \cup {i}, out |-> Append(a.out, canonical(hdrs[i]))]
  IN  FoldLeft(step, [used |-> {}, out |-> <<>>], signed).out

-----------------------------------------------------------------------------
(* Signing.                                                                *)

Count(hdrs, lkey) == Cardinality({i \in DOMAIN hdrs : hdrs[i].lkey = lkey})

\* Names of the headers that are signed: with sealing each once more than it occurs.
SignedHeaders(sel, hdrs) ==
  LET again(l) == Repeat(l, Count(hdrs, l))
      seal(a, l) == a \o again(l)
  IN  IF sel.seal THEN FoldLeft(seal, sel.headers, sel.headers) ELSE sel.headers

\* A signature for a selector. The signature itself is of the hash of its data.
Sign(sel, hdrs, body) ==
  LET signed == SignedHeaders(sel, hdrs)
  IN  [sel |-> sel, signed |-> signed, expire |-> IF sel.expiration > 0 THEN sel.expiration ELSE -1,
       bodyhash |-> bodyHash(~sel.bodyRelaxed, body), data |-> dataHash(~sel.headerRelaxed, signed, hdrs)]

\* The message to send, with one From header, with the signatures. Time starts at 0.
Init ==
  \E body \in Bodies, sel \in Selectors :
    LET hdrs == <<H("From", "from", <<"x", "s", "y">>), H("Subject", "subject", <<"s", "x">>)>>
    IN  k = [step |-> "transit", hdrs |-> hdrs, body |-> body, sig |-> Sign(sel, hdrs, body),
             now |-> 0, changes |-> 0, touched |-> FALSE, status |-> "", record |-> ""]

-----------------------------------------------------------------------------
(* Changes in transit. Those that the canonicalization does not provide    *)
(* for are harmful.                                                        *)

Change(harmful, hdrs, body) ==
  /\ k.step = "transit" /\ k.changes < MaxChanges
  /\ k' = [k EXCEPT !.hdrs = hdrs, !.body = body, !.changes = @ + 1, !.touched = @ \/ harmful]

Sel == k.sig.sel

\* A new header at the top: a trace header, or one of a name that is signed.
AddHeader == \E h \in {H("Received", "received", <<"x">>), H("From", "from", <<"y">>), H("To", "to", <<"x">>)} :
  Change(h.lkey \in ToSet(Sel.headers) /\ (Sel.seal \/ Count(k.hdrs, h.lkey) = 0), <<h>> \o k.hdrs, k.body)

\* A header is folded at a space, or its name has another case.
Refold == \E i \in DOMAIN k.hdrs : \E j \in DOMAIN k.hdrs[i].val :
  /\ k.hdrs[i].val[j] = "s"
  /\ Change(~Sel.headerRelaxed, [k.hdrs EXCEPT ![i].val = InsertAt(@, j, "n")], k.body)

Recase == \E i \in DOMAIN k.hdrs :
  /\ k.hdrs[i].key = "Subject"
  /\ Change(~Sel.headerRelaxed, [k.hdrs EXCEPT ![i].key = "SUBJECT"], k.body)

\* An empty line at the end.
AddLine == Change(FALSE, k.hdrs, Append(k.body, "n"))

\* More space where there is space already, or at the end of a line.
AddSpace == \E i \in DOMAIN k.body :
  /\ k.body[i] \in {"s", "n"}
  /\ Change(~Sel.bodyRelaxed, k.hdrs, InsertAt(k.body, i, "s"))

\* Other text.
ChangeText ==
  \/ \E i \in DOMAIN k.body : k.body[i] = "x" /\ Change(TRUE, k.hdrs, [k.body EXCEPT ![i] = "y"])
  \/ \E i \in DOMAIN k.hdrs : k.hdrs[i].key = "Subject" /\ Change(TRUE, [k.hdrs EXCEPT ![i].val = <<"s", "y">>], k.body)
  \/ Change(TRUE, k.hdrs, <<"y">> \o k.body)

Delay == k.step = "transit" /\ k.now < 2 /\ k' = [k EXCEPT !.now = @ + 1]

-----------------------------------------------------------------------------
(* Verification.                                                           *)

checkSignatureParams(sig) == "from" \in ToSet(sig.signed) /\ ~(sig.expire >= 0 /\ sig.expire < k.now)

\* Answer to the question for the key: st, and a sequence of records.
Lookup(a) ==
  LET dkim(r) == r.kind # "other"
      rs == SelectSeq(a.rs, dkim)
  IN  CASE a.st = "notfound" -> [st |-> "permerror", r |-> <<>>]
        [] a.st = "temp" -> [st |-> "temperror", r |-> <<>>]
        [] \E i \in DOMAIN rs : rs[i].kind = "syntax" -> [st |-> "permerror", r |-> <<>>]
        [] rs = <<>> \/ Len(rs) > 1 -> [st |-> "temperror", r |-> <<>>]
        [] OTHER -> [st |-> "", r |-> rs[1]]

\* In test mode, other results than a pass are as no signature.
verifySignatureRecord(r, sig) ==
  LET st == CASE r.key # "good" -> "permerror"
              [] dataHash(~sig.sel.headerRelaxed, sig.signed, k.hdrs) # sig.data -> "fail"
              [] bodyHash(~sig.sel.bodyRelaxed, k.body) # sig.bodyhash -> "fail"
              [] OTHER -> "pass"
  IN  IF r.test /\ st # "pass" THEN "none" ELSE st

verifySignature(a, sig) ==
  LET l == Lookup(a) IN IF l.st # "" THEN l.st ELSE verifySignatureRecord(l.r, sig)

Verify == \E a \in DNSRecords :
  /\ k.step = "transit"
  /\ k' = [k EXCEPT !.step = "done", !.record = a.name,
                    !.status = IF ~checkSignatureParams(k.sig) THEN "permerror" ELSE verifySignature(a, k.sig)]

Next == AddHeader \/ Refold \/ Recase \/ AddLine \/ AddSpace \/ ChangeText \/ Delay \/ Verify

\* A signature by Sign is verified by Verify exactly when the message was changed in no other
\* way than its canonicalization provides for: new lines at the end, new headers that are not
\* signed or, without sealing, come on top of one that is, and with relaxed canonicalization
\* other folding, case and space; and it is not expired and its key is published.
SignatureHolds ==
  k.step = "done" =>
    (k.status = "pass" <=> ~k.touched /\ k.record = "good" /\ (Sel.expiration = 0 \/ k.now <= Sel.expiration))
=============================================================================
