---------------------------- MODULE WebmailView ----------------------------
(***************************************************************************)
(* A webmail connection (webmail/view.go): the goroutine of serveEvents    *)
(* that owns a view and writes events to the browser, the goroutines that  *)
(* run a query in a transaction of their own, the changes that other       *)
(* connections broadcast, and the browser (webmail/webmail.ts) that shows  *)
(* what it was told.  A message is a record of what the filters look at; a *)
(* text is the set of search words it contains.                            *)
(***************************************************************************)
EXTENDS Integers, Sequences, FiniteSets, SequencesExt, FiniteSetsExt

CONSTANTS
    Stored,       \* the messages of the account before the connection starts
    Arrivals,     \* the messages that can be delivered later
    Queries,      \* the queries the browser can ask for
    Children,     \* Children[mb]: the mailboxes below mb
    Excluded,     \* the trash, junk and rejects mailboxes
    PageCount,    \* Page.Count of every request
    MaxMessages, MaxChanges, MaxRequests

VARIABLE w

NoQuery == [on |-> FALSE]

----------------------------------------------------------------------------
(* The filters of a query. *)

\* A label of NotFilter overrides the same label of Filter; every label must
\* be set or clear as asked for.
flagFilterFn(q, m) ==
    \A l \in q.labels \cup q.notlabels : (l \in m.flags) <=> (l \notin q.notlabels)

\* The type of an attachment is taken from its media type, otherwise from the
\* extension of its file name.
attachmentTypes(m) ==
    LET Kind(a) == IF a.mime # "other" THEN a.mime ELSE a.ext
        types == {Kind(a) : a \in m.atts} \ {"other"}
    IN  IF types = {} THEN {"none"} ELSE types \cup {"any"}

attachmentFilterFn(q, m) ==
    /\ q.att = "" \/ q.att \in attachmentTypes(m)
    /\ q.notatt = "" \/ q.notatt \notin attachmentTypes(m)

\* An address list contains a text when one of its addresses does; From and To
\* must contain all texts asked for and none of the others.
envFilterFn(q, m) ==
    LET contains(texts, l, all) == IF all THEN \A s \in texts : \E a \in l : s \in a
                                          ELSE \E s \in texts : \E a \in l : s \in a
    IN  /\ q.subject \subseteq m.subject
        /\ q.notsubject \cap m.subject = {}
        /\ contains(q.from, m.from, TRUE) /\ ~contains(q.notfrom, m.from, FALSE)
        /\ contains(q.to, m.to, TRUE) /\ ~contains(q.notto, m.to, FALSE)

\* An empty value asks for the presence of the header.
headerFilterFn(q, m) ==
    \A h \in q.headers : \E e \in m.headers : e[1] = h[1] /\ (h[2] = "" \/ h[2] = e[2])

wordsFilterFn(q, m) ==
    q.words \subseteq m.words /\ q.notwords \cap m.words = {}

\* The filters that need the parsed message.
NeedsPart(q) ==
    \/ q.att # "" \/ q.notatt # ""
    \/ q.from \cup q.to \cup q.subject \cup q.notfrom \cup q.notto \cup q.notsubject # {}
    \/ q.headers # {} \/ q.words \cup q.notwords # {}

\* A message that was not parsed leaves an error in the state shared by the
\* filters, and does not match.
ensurePart(q, m) == ~NeedsPart(q) \/ m.parsed

PartFilters(q, m) ==
    /\ ensurePart(q, m)
    /\ attachmentFilterFn(q, m)
    /\ envFilterFn(q, m)
    /\ headerFilterFn(q, m)
    /\ wordsFilterFn(q, m)

----------------------------------------------------------------------------
(* The view. *)

\* The mailboxes of a filter: one mailbox, or all but the excluded ones.
xprepareMailboxIDs(q) ==
    CASE q.mb = -1 -> [match |-> FALSE, ids |-> Excluded]
      [] q.mb > 0  -> [match |-> TRUE, ids |-> {q.mb}]
      [] OTHER     -> [match |-> TRUE, ids |-> {}]

xgatherMailboxIDs(q, ids) ==
    IF q.children THEN ids \cup UNION {Children[mb] : mb \in ids} ELSE ids

\* The view of a request; matchesMailbox, inRange and matches read it.
NewView(vid, rid, q) ==
    LET mbs == xprepareMailboxIDs(q)
    IN  [id |-> vid, rid |-> rid, q |-> q, last |-> 0, end |-> FALSE,
         match |-> mbs.match, ids |-> xgatherMailboxIDs(q, mbs.ids),
         nilmap |-> FALSE, threads |-> {}]

matchesMailbox(v, mb) == v.ids = {} \/ ((mb \in v.ids) <=> v.match)

inRange(v, m) ==
    \/ v.end
    \/ ~v.q.asc /\ m.recv >= v.last
    \/ v.q.asc /\ m.recv <= v.last

\* The filters on the stored fields come first.
matchesFields(v, m) ==
    /\ matchesMailbox(v, m.mb)
    /\ flagFilterFn(v.q, m)
    /\ v.q.oldest = 0 \/ m.recv >= v.q.oldest
    /\ v.q.newest = 0 \/ m.recv < v.q.newest
    /\ v.q.min = 0 \/ m.size >= v.q.min
    /\ v.q.max = 0 \/ m.size <= v.q.max

matches(v, m, checkRange) ==
    /\ matchesFields(v, m)
    /\ PartFilters(v.q, m)
    /\ ~checkRange \/ inRange(v, m)

matchErr(v, m) == matchesFields(v, m) /\ ~ensurePart(v.q, m)

----------------------------------------------------------------------------
(* A query: queryMessages reads the snapshot of its transaction and sends   *)
(* responses, one group of messages per match.                              *)

Live(db) == {i \in DOMAIN db : ~db[i].gone}

\* The filters queryMessages puts on the database query, before those that
\* need the message parsed.
QueryFilters(v, m) ==
    /\ v.ids = {} \/ ((m.mb \in v.ids) <=> v.match)
    /\ flagFilterFn(v.q, m)
    /\ v.q.oldest = 0 \/ m.recv >= v.q.oldest
    /\ v.q.newest = 0 \/ m.recv <= v.q.newest
    /\ v.q.min = 0 \/ m.size >= v.q.min
    /\ v.q.max = 0 \/ m.size <= v.q.max

Before(db, v, i, j) ==
    LET lt(a, b) == db[a].recv < db[b].recv \/ (db[a].recv = db[b].recv /\ a < b)
    IN  IF v.q.asc THEN lt(i, j) ELSE lt(j, i)

\* The live messages of the mailboxes of the view, in the order asked for,
\* after the anchor.
Candidates(db, v, anchor) ==
    LET ids == {i \in Live(db) : matchesMailbox(v, db[i].mb)}
        all == SetToSortSeq(ids, LAMBDA i, j : Before(db, v, i, j))
    IN  IF anchor = 0 THEN all
        ELSE SelectSeq(all, LAMBDA i : Before(db, v, anchor, i))

\* The anchor must exist and match the filters, otherwise the view starts over.
checkMessage(db, v, id) ==
    id \in Live(db) /\ matches(v, db[id], FALSE)

\* The other messages of the thread of i, and the message whose contents are
\* sent along: the first unread one when the view starts.
gatherThread(db, i, first) ==
    LET others == SetToSortSeq({j \in Live(db) : db[j].thread = db[i].thread /\ j # i}, <)
        unread == SelectSeq(others, LAMBDA j : "seen" \notin db[j].flags)
    IN  [ids |-> others,
         pm |-> IF ~first THEN 0
                ELSE IF unread # <<>> THEN unread[1]
                ELSE IF "seen" \notin db[i].flags THEN i
                ELSE IF others # <<>> THEN others[1] ELSE 0]

\* How many messages of a group the browser will show: the roots, and the rest
\* of a thread that is not collapsed (or has unread messages).
Shown(db, v, group) ==
    LET members == ToSet(group)
        Parents(i) == {k \in DOMAIN db[i].parents : db[i].parents[k] \in members}
        Root(i) == IF Parents(i) = {} THEN i ELSE db[i].parents[Max(Parents(i))]
        Unread(r) == \E i \in members :
                        "seen" \notin db[i].flags /\ (i = r \/ r \in ToSet(db[i].parents))
        Open(i) == \/ Root(i) = i
                   \/ v.q.th = "on" /\ ~db[Root(i)].collapsed
                   \/ v.q.th = "unread" /\ Unread(Root(i))
    IN  Cardinality({i \in members : Open(i)})

\* One message of the query: stop after a full page, skip threads that were
\* sent, otherwise respond with the message and its thread.
EachMessage(db, v, anchor, s, i) ==
    LET m == db[i]
        first == anchor = 0 /\ s.have = 0
        thread == gatherThread(db, i, first)
        group == IF v.q.th = "off" THEN <<i>> ELSE <<i>> \o thread.ids
        pm == IF v.q.th # "off" /\ thread.pm # 0 THEN thread.pm ELSE IF first THEN i ELSE 0
    IN  IF s.stop \/ s.err \/ ~QueryFilters(v, m) THEN s
        ELSE IF ~ensurePart(v.q, m) THEN [s EXCEPT !.err = TRUE]
        ELSE IF ~PartFilters(v.q, m) THEN s
        ELSE IF s.have >= PageCount THEN [s EXCEPT !.stop = TRUE]
        ELSE IF m.thread \in s.threads THEN s
        ELSE IF \E j \in ToSet(group) : ~db[j].parsed THEN [s EXCEPT !.err = TRUE]
        ELSE [s EXCEPT !.out = Append(@, [k |-> "msgs", ids |-> group, pm |-> pm]),
                       !.have = @ + (IF v.q.th = "off" THEN 1 ELSE Shown(db, v, group)),
                       !.threads = IF v.q.th = "off" THEN @ ELSE @ \cup {m.thread}]

\* All responses of a query in a transaction that sees db.
queryMessages(db, v, page) ==
    LET bad == page # 0 /\ page \in Live(db) /\ matchErr(v, db[page])
        reset == page # 0 /\ ~checkMessage(db, v, page)
        anchor == IF reset THEN 0 ELSE page
        s == FoldLeft(LAMBDA t, i : EachMessage(db, v, anchor, t, i),
                      [out |-> IF reset THEN <<[k |-> "reset"]>> ELSE <<>>, have |-> 0,
                       threads |-> v.threads, stop |-> FALSE, err |-> FALSE],
                      Candidates(db, v, anchor))
    IN  IF bad THEN <<[k |-> "err"]>>
        ELSE IF s.err THEN Append(s.out, [k |-> "err"])
        ELSE IF s.stop THEN Append(s.out, [k |-> "closed"])
        ELSE Append(s.out, [k |-> "end"])

StartQuery(db, v, anchor) ==
    [on |-> TRUE, vid |-> v.id, rid |-> v.rid, resp |-> queryMessages(db, v, anchor),
     db |-> db, i |-> 0, j |-> 0, fin |-> FALSE]

----------------------------------------------------------------------------
(* The browser.  It ignores events of another view or request. *)

flagsOf(db, ids) == {<<i, db[i].flags>> : i \in ids}

\* New contents for messages replace what the browser had for them.
addMessageItems(c, items) ==
    [c EXCEPT !.shown = {x \in @ : \A y \in items : y[1] # x[1]} \cup items]

viewMsgs(c, vid, rid, groups, db, end) ==
    IF vid # c.view \/ rid # c.req THEN c
    ELSE LET ids == UNION {ToSet(groups[k].ids) : k \in DOMAIN groups}
             done == groups = <<>> \/ end
         IN  [addMessageItems(c, flagsOf(db, ids))
                EXCEPT !.anchor = IF groups = <<>> THEN @ ELSE Head(Last(groups).ids),
                       !.end = end,
                       !.req = IF done THEN 0 ELSE @]

viewReset(c, vid, rid) ==
    IF vid # c.view \/ rid # c.req THEN c ELSE [c EXCEPT !.shown = {}, !.reset = TRUE]

viewErr(c, vid, rid) ==
    IF vid # c.view \/ rid # c.req THEN c ELSE [c EXCEPT !.view = 0, !.req = 0]

viewChange(c, ch) ==
    CASE ch.k = "add"    -> addMessageItems(c, ch.items)
      [] ch.k = "remove" -> [c EXCEPT !.shown = {x \in @ : x[1] \notin ch.ids}]
      [] ch.k = "flags"  -> [c EXCEPT !.shown = {IF x[1] = ch.id THEN <<ch.id, ch.flags>> ELSE x
                                                 : x \in @}]
      [] ch.k = "counts" -> [c EXCEPT !.counts = ch.counts]

viewChanges(c, vid, chs) ==
    IF chs = <<>> THEN c
    ELSE IF vid # c.view THEN [c EXCEPT !.dropped = TRUE]
    ELSE FoldLeft(viewChange, c, chs)

\* An event is written only while the session is valid; otherwise the browser
\* is told that it ended.
xsendEvent(t, c) ==
    IF t.session THEN [t EXCEPT !.c = c] ELSE [t EXCEPT !.c.fatal = TRUE]

----------------------------------------------------------------------------
(* The account: other connections deliver, remove and flag messages, in      *)
(* transactions that broadcast what they changed.                            *)

Counts(db) == [mb \in DOMAIN Children |-> Cardinality({i \in Live(db) : db[i].mb = mb})]

Broadcast(t, chs) == IF t.conn = "open" THEN [t EXCEPT !.pending = @ \o chs] ELSE t

DeliverMessage(m) ==
    /\ Len(w.db) < MaxMessages
    /\ LET i == Len(w.db) + 1
           root == {j \in DOMAIN w.db : w.db[j].thread = m.thread}
           n == [m EXCEPT !.parents = IF root = {} THEN <<>> ELSE <<Min(root)>>]
           db == Append(w.db, n)
       IN  w' = Broadcast([w EXCEPT !.db = db],
                          <<[k |-> "add", id |-> i], [k |-> "counts", counts |-> Counts(db)]>>)

ExpungeMessage(i) ==
    /\ w.ops < MaxChanges
    /\ i \in Live(w.db)
    /\ LET db == [w.db EXCEPT ![i].gone = TRUE]
       IN  w' = Broadcast([w EXCEPT !.db = db, !.ops = @ + 1],
                          <<[k |-> "remove", ids |-> {i}, mb |-> w.db[i].mb],
                            [k |-> "counts", counts |-> Counts(db)]>>)

MarkSeen(i) ==
    /\ w.ops < MaxChanges
    /\ i \in Live(w.db)
    /\ LET fl == IF "seen" \in w.db[i].flags THEN w.db[i].flags \ {"seen"}
                                             ELSE w.db[i].flags \cup {"seen"}
       IN  w' = Broadcast([w EXCEPT !.db[i].flags = fl, !.ops = @ + 1],
                          <<[k |-> "flags", id |-> i, mb |-> w.db[i].mb, flags |-> fl]>>)

RevokeSession ==
    /\ w.ops < MaxChanges /\ w.session /\ w.conn = "open"
    /\ w' = [w EXCEPT !.session = FALSE, !.ops = @ + 1]

----------------------------------------------------------------------------
(* The connection. *)

\* A connection needs a session that is still valid.
CanConnect == w.conn = "none" /\ w.session

\* The connection starts with the query of its URL: without any filter, or
\* with a mailbox name that does not exist, the inbox (1) is shown.  The
\* mailboxes and the query share a transaction.
Connect(q) ==
    /\ CanConnect
    /\ LET v == NewView(1, 1, q)
       IN  w' = [w EXCEPT !.conn = "open", !.th0 = q.th, !.v = v,
                          !.q = StartQuery(w.db, v, 0),
                          !.c = [view |-> 1, req |-> 1, q |-> q, shown |-> {}, anchor |-> 0,
                                 end |-> FALSE, counts |-> Counts(w.db), reset |-> FALSE,
                                 dropped |-> FALSE, fatal |-> FALSE]]

\* The browser asks for another view at any time, and for the next page when
\* the previous request is done.
RequestNewView(q) ==
    /\ w.conn = "open" /\ ~w.c.fatal /\ w.chan = <<>> /\ w.reqs < MaxRequests
    /\ LET n == w.reqs + 2
       IN  w' = [w EXCEPT !.reqs = @ + 1,
                          !.chan = <<[cancel |-> FALSE, vid |-> n, rid |-> n, q |-> q, anchor |-> 0]>>,
                          !.c = [@ EXCEPT !.view = n, !.req = n, !.q = q, !.shown = {},
                                          !.anchor = 0, !.end = FALSE, !.reset = FALSE]]

RequestNextPage ==
    /\ w.conn = "open" /\ ~w.c.fatal /\ w.chan = <<>> /\ w.reqs < MaxRequests
    /\ w.c.view # 0 /\ w.c.req = 0 /\ ~w.c.end
    /\ LET n == w.reqs + 2
       IN  w' = [w EXCEPT !.reqs = @ + 1, !.c.req = n,
                          !.chan = <<[cancel |-> FALSE, vid |-> w.c.view, rid |-> n, q |-> w.c.q,
                                      anchor |-> w.c.anchor]>>]

\* A request can also only cancel the view.
RequestCancel ==
    /\ w.conn = "open" /\ ~w.c.fatal /\ w.chan = <<>> /\ w.reqs < MaxRequests
    /\ w' = [w EXCEPT !.reqs = @ + 1, !.c.view = 0, !.c.req = 0,
                      !.chan = <<[cancel |-> TRUE]>>]

\* The connection ends: the query is canceled and drained, pending requests
\* are drained, and the registration for changes is removed.
Ended(t, how) ==
    [t EXCEPT !.conn = how, !.q = NoQuery, !.chan = <<>>, !.pending = <<>>]

\* A new request cancels the one in progress, whose events are drained; a view
\* that continues keeps the threads and the range that were sent.
serveRequest ==
    /\ w.conn = "open" /\ w.chan # <<>>
    /\ LET r == w.chan[1]
           same == r.vid = w.v.id
           v == IF same THEN [w.v EXCEPT !.rid = r.rid, !.q = r.q] ELSE NewView(r.vid, r.rid, r.q)
           t == [w EXCEPT !.chan = <<>>, !.q = NoQuery]
       IN  IF r.cancel
           THEN w' = [t EXCEPT !.v = [NewView(0, 0, [w.v.q EXCEPT !.mb = 0, !.asc = FALSE, !.th = "off"])
                                        EXCEPT !.nilmap = TRUE]]
           ELSE w' = [t EXCEPT !.v = v, !.q = StartQuery(w.db, v, r.anchor)]

\* queryMessages gets ahead of the events: it records the threads it sent.
queryStep ==
    /\ w.q.on /\ w.q.i < Len(w.q.resp)
    /\ LET r == w.q.resp[w.q.i + 1]
       IN  w' = [w EXCEPT !.q.i = @ + 1,
                          !.v.threads = IF r.k = "msgs" /\ w.v.q.th # "off"
                                        THEN @ \cup {w.q.db[r.ids[1]].thread} ELSE @]

\* The responses that viewRequestTx gathered and did not send yet.
Gathered == SubSeq(w.q.resp, w.q.j + 1, w.q.i)
GatheredMsgs == SelectSeq(Gathered, LAMBDA r : r.k = "msgs")

\* A view that got messages extends to the last of them.
Extend(v, groups, db, end) ==
    [v EXCEPT !.last = IF groups = <<>> THEN @ ELSE db[Head(Last(groups).ids)].recv,
              !.end = @ \/ end]

\* viewRequestTx sends what it gathered, after a while or when the query ends.
viewMsgsEvent ==
    /\ w.conn = "open" /\ w.q.on /\ GatheredMsgs # <<>> /\ Gathered[1].k = "msgs"
    /\ LET groups == GatheredMsgs
       IN  w' = xsendEvent([w EXCEPT !.q.j = @ + Len(groups), !.v = Extend(@, groups, w.q.db, FALSE)],
                           viewMsgs(w.c, w.q.vid, w.q.rid, groups, w.q.db, FALSE))

viewResetEvent ==
    /\ w.conn = "open" /\ w.q.on /\ Gathered # <<>> /\ Gathered[1].k = "reset"
    /\ w' = xsendEvent([w EXCEPT !.q.j = @ + 1], viewReset(w.c, w.q.vid, w.q.rid))

\* The last event: the end of the view with the messages that remain, an
\* error, or an empty list after a full page.
viewLastEvent ==
    /\ w.conn = "open" /\ w.q.on /\ ~w.q.fin
    /\ Gathered # <<>> /\ Last(Gathered).k \in {"end", "err", "closed"}
    /\ Gathered[1].k # "reset"
    /\ LET groups == GatheredMsgs
           t == [w EXCEPT !.q.j = w.q.i, !.q.fin = TRUE]
       IN  CASE Last(Gathered).k = "end" ->
                  w' = xsendEvent([t EXCEPT !.v = Extend(@, groups, w.q.db, TRUE)],
                                  viewMsgs(w.c, w.q.vid, w.q.rid, groups, w.q.db, TRUE))
             [] OTHER ->
                  /\ groups = <<>>
                  /\ w' = xsendEvent(t, IF Last(Gathered).k = "err"
                                        THEN viewErr(w.c, w.q.vid, w.q.rid)
                                        ELSE viewMsgs(w.c, w.q.vid, w.q.rid, <<>>, w.q.db, FALSE))

requestDone ==
    /\ w.conn = "open" /\ w.q.on /\ w.q.fin
    /\ w' = [w EXCEPT !.q = NoQuery]

\* As xchangedUIDs, but the range is that of the query also for removals.
xchangedUIDsRange(v, db, ids, isRemove) ==
    {i \in ids : \/ db[i].thread \in v.threads
                 \/ matchesMailbox(v, db[i].mb) /\ inRange(v, db[i]) /\ ~(isRemove /\ db[i].gone)}

\* The uids of a change that are in the view: of its threads, or of its
\* mailboxes and in range, or removed.
xchangedUIDs(v, db, ids, isRemove) ==
    {i \in ids : \/ db[i].thread \in v.threads
                 \/ matchesMailbox(v, db[i].mb) /\ (inRange(v, db[i]) \/ (isRemove /\ db[i].gone))}

\* A new message that matches, or belongs to a thread that was sent; with
\* threading, a new thread is sent whole.  The threading mode is that of the
\* request the connection started with.
AddChange(s, ch, db) ==
    LET m == db[ch.id]
        ok == matches(s.v, m, TRUE)
        thread == m.thread \in s.v.threads
        whole == ~thread /\ w.th0 # "off"
        ids == {ch.id} \cup (IF whole THEN ToSet(gatherThread(db, ch.id, FALSE).ids) ELSE {})
        extends == IF s.v.q.asc THEN m.recv > s.v.last ELSE m.recv < s.v.last
    IN  IF m.gone \/ matchErr(s.v, m) THEN [s EXCEPT !.err = TRUE]
        ELSE IF ~ok /\ ~thread THEN s
        ELSE IF \E i \in ids : ~db[i].parsed THEN [s EXCEPT !.err = TRUE]
        ELSE [s EXCEPT !.panic = @ \/ (whole /\ s.v.nilmap),
                       !.v = [@ EXCEPT !.threads = IF whole THEN @ \cup {m.thread} ELSE @,
                                       !.last = IF extends THEN m.recv ELSE @],
                       !.out = Append(@, [k |-> "add", items |-> flagsOf(db, ids)])]

\* One change, unless an earlier one failed.
xprocessChange(s, ch, db) ==
    IF s.err \/ s.panic THEN s
    ELSE CASE ch.k = "add" -> AddChange(s, ch, db)
           [] ch.k = "remove" ->
                LET ids == xchangedUIDs(s.v, db, ch.ids, TRUE)
                IN  IF ids = {} THEN s ELSE [s EXCEPT !.out = Append(@, [k |-> "remove", ids |-> ids])]
           [] ch.k = "flags" ->
                IF xchangedUIDs(s.v, db, {ch.id}, FALSE) = {} THEN s
                ELSE [s EXCEPT !.out = Append(@, [k |-> "flags", id |-> ch.id, flags |-> ch.flags])]
           [] OTHER -> [s EXCEPT !.out = Append(@, ch)]

\* Changes are handled between requests only.  An error, such as a message
\* that is gone by now, ends the connection with a fatal error.
xprocessChanges ==
    /\ w.conn = "open" /\ ~w.q.on /\ w.pending # <<>>
    /\ LET s == FoldLeft(LAMBDA a, ch : xprocessChange(a, ch, w.db),
                         [v |-> w.v, out |-> <<>>, err |-> FALSE, panic |-> FALSE], w.pending)
           t == [w EXCEPT !.pending = <<>>, !.v = s.v]
       IN  IF s.panic THEN w' = Ended(t, "panic")
           ELSE IF s.err THEN w' = [Ended(t, "closed") EXCEPT !.c.fatal = TRUE]
           ELSE w' = IF s.out = <<>> THEN t
                     ELSE xsendEvent(t, viewChanges(w.c, w.v.id, s.out))

\* The browser goes away, the server stops, too many changes are pending, or
\* the connection breaks.
Disconnect ==
    /\ w.conn = "open"
    /\ w' = [Ended(w, "closed") EXCEPT !.c.fatal = TRUE]

Init ==
    w = [db |-> Stored, pending |-> <<>>, v |-> [id |-> 0], q |-> NoQuery, chan |-> <<>>,
         c |-> [fatal |-> FALSE], conn |-> "none", th0 |-> "off", session |-> TRUE,
         ops |-> 0, reqs |-> 0]

Next ==
    \/ \E m \in Arrivals : DeliverMessage(m)
    \/ \E i \in DOMAIN w.db : ExpungeMessage(i) \/ MarkSeen(i)
    \/ RevokeSession
    \/ \E q \in Queries : Connect(q) \/ RequestNewView(q)
    \/ RequestNextPage \/ RequestCancel
    \/ serveRequest \/ queryStep
    \/ viewMsgsEvent \/ viewResetEvent \/ viewLastEvent \/ requestDone
    \/ xprocessChanges \/ Disconnect

Spec == Init /\ [][Next]_w

----------------------------------------------------------------------------
(* Properties *)

\* Nothing is on its way to the browser: no request, no query, no change.
Idle == w.conn = "open" /\ ~w.c.fatal /\ ~w.q.on /\ w.chan = <<>> /\ w.pending = <<>>

\* What a view of the database at rest has in range: strictly before the last
\* message sent, or everything once the end was reached.
InView(v, m) ==
    /\ matches(v, m, FALSE)
    /\ v.end \/ (IF v.q.asc THEN m.recv < v.last ELSE m.recv > v.last)

\* When nothing is on its way, the browser shows the account: every message
\* that matches the view and is in the range sent so far is shown, no removed
\* message is shown, flags are current, threads are shown whole, and the
\* mailbox counts are right.  Two known gaps are left to properties of their
\* own: a threading mode other than that of the first request, and a view
\* that was reset while threading.
ViewInStep ==
    Idle /\ w.c.view = w.v.id /\ w.c.view # 0 /\ w.v.q.th = w.th0
         /\ ~(w.c.reset /\ w.v.q.th # "off")
    => /\ \A i \in Live(w.db) : InView(w.v, w.db[i]) /\ w.v.q.labels \cup w.v.q.notlabels = {}
              => \E x \in w.c.shown : x[1] = i
       /\ \A x \in w.c.shown : ~w.db[x[1]].gone /\ x[2] = w.db[x[1]].flags
       /\ w.v.q.th # "off" => \A i \in Live(w.db) :
              w.db[i].thread \in {w.db[x[1]].thread : x \in w.c.shown}
                  => \E x \in w.c.shown : x[1] = i
       /\ ~w.c.dropped => w.c.counts = Counts(w.db)

\* msgResp.reset: "the anchor message does not exist (anymore?) and we are
\* sending messages from the start".  After a reset, the browser gets all
\* messages of the view again.
ResetFromStart ==
    Idle /\ w.c.view = w.v.id /\ w.c.reset /\ w.v.end /\ w.v.q.th = w.th0
    => \A i \in Live(w.db) : matches(w.v, w.db[i], FALSE) => \E x \in w.c.shown : x[1] = i

\* "Warning: Filters must be kept in sync between queryMessage and
\* view.matches."
FiltersInSync ==
    w.conn = "open" => \A i \in Live(w.db) :
        matches(w.v, w.db[i], FALSE)
            <=> matchesMailbox(w.v, w.db[i].mb) /\ QueryFilters(w.v, w.db[i]) /\ PartFilters(w.v.q, w.db[i])

\* "Threads sent to client. [...] Only filled when query with threading not
\* off."
ThreadsWhenThreading == w.conn = "open" /\ w.v.q.th = "off" => w.v.threads = {}
============================================================================
