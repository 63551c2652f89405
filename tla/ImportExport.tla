---------------------------- MODULE ImportExport ----------------------------
(***************************************************************************)
(* An account is exported to mbox files or maildirs (store/export.go,       *)
(* webops/export.go), and what was written is imported into another account *)
(* (store/import.go), as an archive through the account web page            *)
(* (webaccount/import.go) or one mailbox at a time with "mox import"        *)
(* (import.go).  Mailbox names are sequences of path elements.  A line of a *)
(* message is a record: its kind, the number of ">" before it, how it ends, *)
(* and for a header with flags its value.                                   *)
(***************************************************************************)
EXTENDS Integers, Sequences, FiniteSets, SequencesExt, FiniteSetsExt, Functions

CONSTANTS
    Sources,        \* accounts to export: sequences of [mb, text, flags]
    Boxes,          \* their mailboxes, by name
    Options,        \* [maildir, single, mailbox, recursive, ids]
    Skips,          \* skipMailboxPrefix
    Existing,       \* mailboxes of the account imported to, by name
    Junk,           \* the one with special use Junk
    Dest,           \* the mailbox given to "mox import"
    QuotaMessageSize,
    MaxErase, MaxFail

VARIABLE x

None == <<"none">>
Line(k, q, nl) == [k |-> k, q |-> q, nl |-> nl, v |-> {}]
Empty == Line("empty", 0, "lf")
Letters == {"Forwarded", "Junk", "Notjunk", "Phishing", "MDNSent"}
LetterOrder == <<"Forwarded", "Junk", "Notjunk", "Phishing", "MDNSent">>
XStatus == {"Answered", "Flagged", "Draft", "Deleted"}

----------------------------------------------------------------------------
(* Export                                                                    *)

\* Lines are written with a bare newline.
ToLF(l) == IF l.nl = "crlf" THEN [l EXCEPT !.nl = "lf"] ELSE l

\* maildirFlags.Flag: each flag without a standard letter gets the next one.
Flag(list, f) == IF f \in Range(list) \/ Len(list) >= 26 THEN list ELSE Append(list, f)

Own(flags) == SelectSeq(LetterOrder, LAMBDA f : f \in flags)

\* The file of a message in a maildir: directory and name, and its content.
MaildirFile(name, m, list) ==
    LET l == FoldLeft(Flag, list, Own(m.flags))
    IN  [kind |-> "maildir", mb |-> name, sub |-> IF "Seen" \in m.flags THEN "cur" ELSE "new",
         std |-> m.flags \ Letters,
         letters |-> {k \in DOMAIN l : l[k] \in m.flags},
         lines |-> [k \in DOMAIN m.text |-> ToLF(m.text[k])]]

\* The headers with flags, written before the message.
Status(flags) == flags \cap {"Seen"}
XKeywords(flags) ==
    LET both == {"Junk", "Notjunk"} \subseteq flags
    IN  (flags \cap Letters) \ (IF both THEN {"Junk", "Notjunk"} ELSE {})
FlagLines(flags) ==
    LET all == <<Status(flags), flags \cap XStatus, XKeywords(flags)>>
        some == SelectSeq(all, LAMBDA v : v # {})
    IN  [k \in DOMAIN some |-> [Line("status", 0, "lf") EXCEPT !.v = some[k]]]

\* As Escape, but a line that is quoted already is left alone.
EscapeOnce(l) == IF l.k = "from" /\ l.q = 0 THEN [l EXCEPT !.q = 1] ELSE l

\* "From ", also behind any number of ">", gets another ">".
Escape(l) == IF l.k = "from" THEN [l EXCEPT !.q = @ + 1] ELSE l

\* The lines of a message; headers that hold flags are left out.
BodyLines(text) ==
    LET Add(a, l) ==
            LET header == a.header /\ l.k # "empty"
            IN  [header |-> header,
                 out |-> IF header /\ l.k = "status" THEN a.out
                         ELSE Append(a.out, Escape(ToLF(l)))]
    IN  FoldLeft(Add, [header |-> TRUE, out |-> <<>>], text).out

\* A newline is written after each message: an empty line, or the end of a last
\* line that has none.
Separate(lines) ==
    IF lines # <<>> /\ Last(lines).nl = "none"
    THEN Front(lines) \o <<[Last(lines) EXCEPT !.nl = "lf"]>>
    ELSE Append(lines, Empty)

MboxLines(m) ==
    <<Line("from", 0, "lf")>> \o Separate(FlagLines(m.flags) \o BodyLines(m.text))

\* exportMailbox names: below a mailbox that is exported, its parent is trimmed.
Selected(opt, mb) ==
    \/ opt.mailbox = <<>> \/ mb = opt.mailbox
    \/ opt.recursive /\ IsStrictPrefix(opt.mailbox, mb)
ExportName(mb) ==
    IF x.opt.mailbox = <<>> THEN mb ELSE SubSeq(mb, Len(x.opt.mailbox), Len(mb))

\* MboxArchiver.Create: the one file of an export without archive.
Create(s, f) ==
    IF s.opt.single /\ s.arch # <<>> THEN [s EXCEPT !.phase = "failed"]
    ELSE [s EXCEPT !.arch = Append(@, f)]

\* newMailboxExport, for the next mailbox or for the messages asked for.
OpenMailbox ==
    /\ x.phase = "export" /\ x.cur = None /\ x.todo # <<>>
    /\ LET mb == Head(x.todo)
           ids == IF x.opt.ids # <<>> THEN x.opt.ids
                  ELSE SelectSeq([k \in DOMAIN x.src |-> k], LAMBDA k : x.src[k].mb = mb)
           name == IF x.opt.ids # <<>> THEN <<"Export">> ELSE ExportName(mb)
           s == [x EXCEPT !.cur = name, !.left = ids, !.out = <<>>, !.list = <<>>]
       IN  x' = IF x.opt.maildir THEN Create(s, [kind |-> "dirs", mb |-> name]) ELSE s

\* ExportMessage: a message whose file cannot be opened is skipped, with a line
\* in errors.txt, like an id that is not there.
ExportMessage ==
    /\ x.phase = "export" /\ x.cur # None /\ x.left # <<>>
    /\ LET id == Head(x.left)
           s == [x EXCEPT !.left = Tail(@)]
       IN  x' = IF id \notin DOMAIN x.src \/ id \in x.gone THEN [s EXCEPT !.errors = TRUE]
                ELSE LET m == x.src[id] IN
                     IF x.opt.maildir
                     THEN [Create(s, MaildirFile(x.cur, m, x.list)) EXCEPT
                              !.list = FoldLeft(Flag, @, Own(m.flags)), !.sent = Append(@, id)]
                     ELSE [s EXCEPT !.out = @ \o MboxLines(m), !.sent = Append(@, id)]

\* Finish: the dovecot-keywords file, or the mbox file.
Finish ==
    /\ x.phase = "export" /\ x.cur # None /\ x.left = <<>>
    /\ LET s == [x EXCEPT !.cur = None, !.todo = Tail(@), !.out = <<>>, !.list = <<>>]
           f == IF x.opt.maildir THEN [kind |-> "keywords", mb |-> x.cur, list |-> x.list]
                ELSE [kind |-> "mbox", mb |-> x.cur, lines |-> x.out]
       IN  x' = IF x.opt.maildir /\ x.list = <<>> THEN s ELSE Create(s, f)

\* ExportMessages adds errors.txt; what was exported is then imported.
ExportEnds ==
    /\ x.phase = "export" /\ x.cur = None /\ x.todo = <<>>
    /\ x' = IF x.errors THEN Create([x EXCEPT !.phase = "exported"], [kind |-> "other", mb |-> <<>>])
            ELSE [x EXCEPT !.phase = "exported"]

\* Another session expunges a message and its file is removed, while the export
\* has a read transaction.
Erase(id) ==
    /\ x.phase = "export" /\ Cardinality(x.gone) < MaxErase
    /\ id \notin x.gone \cup Range(x.sent)
    /\ x' = [x EXCEPT !.gone = @ \cup {id}]

----------------------------------------------------------------------------
(* Reading                                                                   *)

\* Data is stored with crlf.  The newline is replaced; a last line without one
\* loses its last byte.
ToCRLF(l) == CASE l.nl = "crlf" -> l
               [] l.nl = "lf" -> [l EXCEPT !.nl = "crlf"]
               [] OTHER -> [l EXCEPT !.nl = "crlf", !.k = "cut"]

\* MboxReader.Next for all messages of a file: a message ends at a "From " line
\* after an empty line, or at the end of the file.
Unescape(l) == IF l.k = "from" /\ l.q > 0 THEN [l EXCEPT !.q = @ - 1] ELSE l
NewMail == [text |-> <<>>, flags |-> {}, letters |-> {}]
ReadLine(r, raw) ==
    LET l == ToCRLF(raw)
        header == r.header /\ l.k # "empty"
    IN  IF r.prevempty /\ l.k = "from" /\ l.q = 0
        THEN [r EXCEPT !.done = Append(@, r.m), !.m = NewMail, !.header = TRUE]
        ELSE [r EXCEPT !.header = header,
                       !.prevempty = l.k = "empty",
                       !.m.flags = IF r.header /\ l.k = "status" THEN @ \cup l.v ELSE @,
                       !.m.text = Append(@, Unescape(l))]
MboxMails(lines) ==
    IF lines = <<>> THEN <<>>
    ELSE LET r == FoldLeft(ReadLine, [done |-> <<>>, m |-> NewMail, header |-> TRUE,
                                      prevempty |-> FALSE], Tail(lines))
         IN  Append(r.done, r.m)

\* A message file of a maildir: the flags of its name, and its content.
MaildirMail(f) ==
    [text |-> [k \in DOMAIN f.lines |-> ToCRLF(f.lines[k])], flags |-> f.std,
     letters |-> f.letters]

\* ParseDovecotKeywordsFlags and flagSet: the flags of letters.
LetterFlags(letters, list) == {list[k] : k \in letters \cap DOMAIN list}

----------------------------------------------------------------------------
(* The account imported to.  x.tx is the transaction, x.acct what is         *)
(* committed, x.files the message files on disk.  The web import goes on     *)
(* after an error of MessageAdd: x.lost are the messages without a record,   *)
(* x.stray the records without a file.                                       *)

Size(text) == Len(text)
Mailbox(id, parent, junk) == [id |-> id, parent |-> parent, junk |-> junk, count |-> 0]
NoMailboxes == FoldLeft(LAMBDA f, p : [n \in DOMAIN f \cup {p} |->
                                          IF n # p THEN f[n]
                                          ELSE Mailbox(Cardinality(DOMAIN f) + 1,
                                                       IF Len(p) > 1 THEN f[Front(p)].id ELSE 0,
                                                       p = Junk)],
                        <<>>, Existing)
Ids(t) == {t.mbs[n].id : n \in DOMAIN t.mbs}
AddBox(t, p, parent) ==
    [t EXCEPT !.mbs = [n \in DOMAIN @ \cup {p} |->
                          IF n # p THEN @[n] ELSE Mailbox(Max(Ids(t)) + 1, parent, FALSE)]]

\* xensureMailbox: the parent is the mailbox made just before.
EnsureElem(a, p) ==
    IF p \in DOMAIN a.tx.mbs THEN a
    ELSE LET t == AddBox(a.tx, p, a.parent) IN [tx |-> t, parent |-> t.mbs[p].id]
xensureMailbox(t, name) ==
    FoldLeft(EnsureElem, [tx |-> t, parent |-> 0],
             [k \in 1..Len(name) |-> SubSeq(name, 1, k)]).tx

\* Account.MailboxEnsure: the parent is the one by that name.
MailboxEnsure(t, name) ==
    FoldLeft(LAMBDA a, p : IF p \in DOMAIN a.mbs THEN a
                           ELSE AddBox(a, p, IF Len(p) > 1 THEN a.mbs[Front(p)].id ELSE 0),
             t, [k \in 1..Len(name) |-> SubSeq(name, 1, k)])

\* JunkFlagsForMailbox, without automatic junk flags.
JunkFlagsForMailbox(t, mb, flags) ==
    IF t.mbs[mb].junk THEN (flags \ {"Notjunk"}) \cup {"Junk"} ELSE flags

\* needsTraining, by what the message was trained as before.
Trains(flags) == ("Junk" \in flags) # ("Notjunk" \in flags)
As(flags) == IF "Junk" \in flags THEN "junk" ELSE "ham"
NeedsTraining(m) ==
    IF m.trained = "" THEN Trains(m.flags) ELSE ~Trains(m.flags) \/ m.trained # As(m.flags)
Train(m) == IF NeedsTraining(m) THEN [m EXCEPT !.trained = As(m.flags), !.times = @ + 1] ELSE m

\* MessageAdd, as it is called by both: without quota, disk usage and threads.
\* It can fail before the record is inserted, or after that and without a file.
MessageAdd(t, m) ==
    [t EXCEPT !.msgs = Append(@, m), !.mbs[m.mb].count = @ + 1]
MessageAddLate(t, m) == [t EXCEPT !.msgs = Append(@, m)]

NewID(s) == Len(s.tx.msgs) + 1

\* Rolls back, and removes the files of added messages.
RollBack(s) ==
    [s EXCEPT !.phase = "aborted", !.files = @ \ s.newIDs, !.newIDs = {}, !.tx = s.acct,
              !.rest = <<>>, !.arch = <<>>, !.keywords = <<>>, !.missing = <<>>]

\* xdeliver, process of ximportctl.  fail says how MessageAdd goes.
Deliver(s, mb, mail, fail) ==
    LET id == NewID(s)
        add == s.addSize + Size(mail.text)
        m == Train([id |-> id, mb |-> mb, text |-> mail.text, trained |-> "", times |-> 0,
                    flags |-> JunkFlagsForMailbox(s.tx, mb, mail.flags)])
        t == [s EXCEPT !.addSize = add]
    IN  IF s.acct.du + add > QuotaMessageSize THEN RollBack(s)
        ELSE IF fail = "" THEN [t EXCEPT !.tx = MessageAdd(@, m), !.files = @ \cup {id},
                                         !.newIDs = @ \cup {id}]
        ELSE IF s.via = "ctl" THEN RollBack(s)
        ELSE IF fail = "early"
             THEN [t EXCEPT !.lost = Append(@, [mb |-> mb, size |-> Size(mail.text)])]
        ELSE [t EXCEPT !.stray = @ \cup {id}, !.tx = MessageAddLate(@, m)]

Fails(s) ==
    {""} \cup (IF Len(s.lost) + Cardinality(s.stray) < MaxFail THEN {"early", "late"} ELSE {})

----------------------------------------------------------------------------
(* Import of an archive                                                      *)

\* importFile: skipMailboxPrefix.
Strip(mb) == IF IsPrefix(x.skip, mb) THEN SubSeq(mb, Len(x.skip) + 1, Len(mb)) ELSE mb

StartWeb(skip) ==
    /\ x.phase = "exported" /\ ~x.opt.single
    /\ x' = [x EXCEPT !.phase = "import", !.via = "web", !.skip = skip]

\* canceled, before each file.
Cancel ==
    /\ x.phase = "import" /\ x.via = "web" /\ x.rest = <<>>
    /\ x' = RollBack(x)

Here == x.phase = "import" /\ x.via = "web" /\ x.rest = <<>> /\ x.arch # <<>>
NextFile == [x EXCEPT !.arch = Tail(@)]

\* A directory, which is not seen as the maildir it belongs to; a file that is
\* not recognized; an mbox file without name.
SkipFile ==
    /\ Here
    /\ LET f == Head(x.arch) IN
       f.kind \in {"dirs", "other"} \/ (f.kind = "mbox" /\ Strip(f.mb) = <<>>)
    /\ x' = NextFile

\* ximportMbox: its messages are delivered one by one.
ximportMbox ==
    /\ Here
    /\ LET f == Head(x.arch)
           mb == Strip(f.mb)
       IN  /\ f.kind = "mbox" /\ mb # <<>>
           /\ x' = [NextFile EXCEPT !.tx = xensureMailbox(@, mb), !.rest = MboxMails(f.lines),
                                    !.mb = mb]

\* ximportMaildir.  Letters wait for a dovecot-keywords file; the mailbox "."
\* is not allowed.
ximportMaildir(fail) ==
    /\ Here /\ fail \in Fails(x)
    /\ LET f == Head(x.arch)
           mb == Strip(f.mb)
           mail == MaildirMail(f)
           known == mb \in DOMAIN x.keywords
           now == IF known THEN LetterFlags(mail.letters, x.keywords[mb]) ELSE {}
           s == [NextFile EXCEPT !.tx = xensureMailbox(@, mb)]
           d == Deliver(s, mb, [mail EXCEPT !.flags = @ \cup now], fail)
       IN  /\ f.kind = "maildir"
           /\ x' = IF mb = <<>> THEN RollBack(x)
                   ELSE IF d.phase = "aborted" \/ known \/ mail.letters = {} THEN d
                   ELSE [d EXCEPT !.missing = Append(@, [id |-> IF fail = "early" THEN 0 ELSE NewID(s),
                                                         mb |-> mb, letters |-> mail.letters])]

\* The flags of messages that waited for the file.  openTrainMessage needs the
\* message's file.
FixUp(t, w, list) ==
    LET add == LetterFlags(w.letters, list)
        m == [t.msgs[w.id] EXCEPT !.flags = @ \cup add]
    IN  IF add = {} THEN t
        ELSE [t EXCEPT !.msgs[w.id] = IF w.id \in x.files THEN Train(m) ELSE m]
ximportKeywords ==
    /\ Here
    /\ LET f == Head(x.arch)
           mb == Strip(f.mb)
           mine == SelectSeq(x.missing, LAMBDA w : w.mb = mb)
       IN  /\ f.kind = "keywords"
           /\ x' = IF \E w \in Range(mine) : w.id = 0 /\ LetterFlags(w.letters, f.list) # {}
                   THEN RollBack(x)
                   ELSE [NextFile EXCEPT
                           !.keywords = [n \in DOMAIN @ \cup {mb} |->
                                            IF n = mb THEN f.list ELSE @[n]],
                           !.tx = FoldLeft(LAMBDA t, w : FixUp(t, w, f.list), @, mine),
                           !.missing = SelectSeq(@, LAMBDA w : w.mb # mb)]

----------------------------------------------------------------------------
(* "mox import": one mbox file, or the maildir of one mailbox, is imported   *)
(* into a mailbox.                                                           *)

\* MaildirReader: first new, then cur; the keywords file is read before.
MaildirMails(name) ==
    LET mine == SelectSeq(x.arch, LAMBDA f : f.mb = name)
        Of(sub) == SelectSeq(mine, LAMBDA f : f.kind = "maildir" /\ f.sub = sub)
        kw == SelectSeq(mine, LAMBDA f : f.kind = "keywords")
        list == IF kw = <<>> THEN <<>> ELSE kw[1].list
        Mail(f) == [MaildirMail(f) EXCEPT !.flags = @ \cup LetterFlags(f.letters, list)]
        l == Of("new") \o Of("cur")
    IN  [k \in DOMAIN l |-> Mail(l[k])]

StartCtl(name) ==
    /\ x.phase = "exported"
    /\ \E f \in Range(x.arch) : f.mb = name /\ f.kind \in {"dirs", "mbox"}
    /\ LET mbox == SelectSeq(x.arch, LAMBDA f : f.mb = name /\ f.kind = "mbox")
           mails == IF x.opt.maildir THEN MaildirMails(name) ELSE MboxMails(mbox[1].lines)
       IN  x' = [x EXCEPT !.phase = "import", !.via = "ctl", !.skip = name, !.mb = Dest,
                          !.tx = MailboxEnsure(@, Dest), !.rest = mails, !.arch = <<>>]

\* The next message of an mbox file or a maildir.
DeliverNext(fail) ==
    /\ x.phase = "import" /\ x.rest # <<>> /\ fail \in Fails(x)
    /\ x' = Deliver([x EXCEPT !.rest = Tail(@)], x.mb, Head(x.rest), fail)

\* Threads, counts and disk usage are saved and the transaction is committed.
Commit ==
    /\ x.phase = "import" /\ x.arch = <<>> /\ x.rest = <<>>
    /\ LET t == [x.tx EXCEPT !.du = @ + x.addSize]
       IN  x' = [x EXCEPT !.phase = "done", !.acct = t, !.tx = t, !.newIDs = {}]

CommitFails ==
    /\ x.phase = "import" /\ x.arch = <<>> /\ x.rest = <<>>
    /\ x' = RollBack(x)

----------------------------------------------------------------------------
Init ==
    \E src \in Sources, opt \in Options :
        LET t == [mbs |-> NoMailboxes, msgs |-> <<>>, du |-> 0]
        IN  x = [phase |-> "export", src |-> src, opt |-> opt, gone |-> {}, sent |-> <<>>,
                 todo |-> IF opt.ids # <<>> THEN <<None>> ELSE SelectSeq(Boxes, LAMBDA mb : Selected(opt, mb)),
                 cur |-> None, left |-> <<>>, out |-> <<>>, list |-> <<>>, arch |-> <<>>,
                 errors |-> FALSE, via |-> "", skip |-> <<>>, mb |-> None, rest |-> <<>>,
                 acct |-> t, tx |-> t, files |-> {}, newIDs |-> {}, addSize |-> 0, lost |-> <<>>, stray |-> {},
                 keywords |-> <<>>, missing |-> <<>>]

Next ==
    \/ OpenMailbox \/ ExportMessage \/ Finish \/ ExportEnds
    \/ \E id \in DOMAIN x.src : Erase(id)
    \/ \E skip \in Skips : StartWeb(skip)
    \/ \E f \in Range(x.arch) : StartCtl(f.mb)
    \/ Cancel \/ SkipFile \/ ximportMbox \/ ximportKeywords
    \/ \E fail \in {"", "early", "late"} : ximportMaildir(fail) \/ DeliverNext(fail)
    \/ Commit \/ CommitFails

Spec == Init /\ [][Next]_x

----------------------------------------------------------------------------
TypeOK ==
    /\ x.phase \in {"export", "exported", "failed", "import", "done", "aborted"}
    /\ x.newIDs \subseteq x.files

\* What a message says, apart from headers that hold flags, the newline after
\* each message of an mbox file, and how lines end.
Content(text) ==
    LET Add(a, l) ==
            LET header == a.header /\ l.k # "empty"
            IN  [header |-> header,
                 out |-> IF header /\ l.k = "status" THEN a.out ELSE Append(a.out, <<l.k, l.q>>)]
    IN  FoldLeft(Add, [header |-> TRUE, out |-> <<>>], text).out
ReadBack(text) ==
    LET c == Content(text) IN IF x.opt.maildir THEN c ELSE Front(c)
Whole(text) == Last(text).nl # "none"

\* The flags an mbox file can hold: not both junk and not junk.
Kept(flags) ==
    IF x.opt.maildir THEN flags ELSE Status(flags) \cup (flags \cap XStatus) \cup XKeywords(flags)

ExportedName(id) ==
    IF x.opt.ids # <<>> THEN <<"Export">> ELSE ExportName(x.src[id].mb)
ImportedName(id) == IF x.via = "ctl" THEN Dest ELSE Strip(ExportedName(id))

\* What was exported and is part of this import, by mailbox.
Expected(mb) ==
    SelectSeq(x.sent, LAMBDA id :
        /\ x.via = "ctl" => ExportedName(id) = x.skip
        /\ ImportedName(id) = mb)
Got(mb) == SelectSeq(x.acct.msgs, LAMBDA m : m.mb = mb)

Same(id, m) ==
    /\ Content(x.src[id].text) = ReadBack(m.text)
    /\ IF x.acct.mbs[m.mb].junk
       THEN Kept(x.src[id].flags) \ {"Junk", "Notjunk"} = m.flags \ {"Junk", "Notjunk"}
       ELSE Kept(x.src[id].flags) = m.flags

\* After an import each mailbox holds the messages that were exported from it:
\* their content (a last line with a newline given) and their flags.  Messages of
\* a maildir come back in any order.  Only the messages that the web import could
\* not add, and went on after, are missing.
RoundTrip ==
    (x.phase = "done" /\ \A id \in Range(x.sent) : Whole(x.src[id].text)) =>
        \A mb \in {ImportedName(id) : id \in Range(x.sent)} \ {<<>>} :
            LET e == Expected(mb)
                g == Got(mb)
            IN  /\ Len(e) = Len(g) + Len(SelectSeq(x.lost, LAMBDA l : l.mb = mb))
                /\ \E p \in Permutations(DOMAIN e) :
                      /\ ~x.opt.maildir => \A j, k \in DOMAIN g : j < k => p[j] < p[k]
                      /\ \A k \in DOMAIN g : Same(e[p[k]], g[k])

\* An import that is aborted or fails leaves the account and its message files
\* as they were, and one with "mox import" is done only if every message was
\* added.  One that is done left a file for each message and counts that match,
\* but for the records of messages whose MessageAdd failed after it inserted
\* them: these have no file and are not counted.  The disk usage is that of all
\* messages, those that were not added included, and within the quota; the junk
\* filter was trained once for each message that is junk or not (outside of a
\* mailbox that says so itself).
AllOrNothing ==
    /\ x.phase \in {"aborted", "exported", "failed"} => x.files = {} /\ x.acct.msgs = <<>>
    /\ x.phase = "done" =>
          /\ x.via = "ctl" => x.lost = <<>> /\ x.stray = {}
          /\ {m.id : m \in Range(x.acct.msgs)} = x.files \cup x.stray
          /\ x.files \cap x.stray = {}
          /\ x.acct.du = FoldLeft(LAMBDA n, m : n + Size(m.text), 0, x.acct.msgs)
                            + FoldLeft(LAMBDA n, l : n + l.size, 0, x.lost)
          /\ x.acct.du <= QuotaMessageSize
          /\ \A mb \in DOMAIN x.acct.mbs :
                x.acct.mbs[mb].count = Len(SelectSeq(Got(mb), LAMBDA m : m.id \notin x.stray))
          /\ \A m \in Range(x.acct.msgs) :
                (~x.acct.mbs[m.mb].junk /\ m.id \notin x.stray) =>
                    m.times = IF Trains(m.flags) THEN 1 ELSE 0

\* What an import brings in is what was exported: all of it or nothing with "mox
\* import", and through the account web page all but the messages for which
\* MessageAdd gave an error.
ImportFaithful == RoundTrip /\ AllOrNothing
=============================================================================
