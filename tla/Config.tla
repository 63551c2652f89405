------------------------------- MODULE Config -------------------------------
(***************************************************************************)
(* The dynamic configuration (domains.conf): how it is checked and turned  *)
(* into lookup tables (mox-/config.go), and the operations of the admin    *)
(* and account interfaces that change it (admin/admin.go, webadmin,        *)
(* webaccount). Every operation takes the lock, which may reload the file, *)
(* composes a new configuration, and has WriteDynamicLocked check, write   *)
(* and activate it.                                                        *)
(*                                                                         *)
(* In Go, the new configuration shares the maps that the operation did not *)
(* replace with the active one, and checking a configuration stores        *)
(* derived fields in its maps. An operation therefore says which maps are  *)
(* shared: what was stored in those stays when the operation fails.        *)
(*                                                                         *)
(* An address has a localpart and a domain; localpart "" is the catchall   *)
(* address of the domain.                                                  *)
(***************************************************************************)
EXTENDS Integers, FiniteSets, FiniteSetsExt, Functions

CONSTANTS
  Accounts, Domains, Selectors,
  Postmaster,   \* Account of the static configuration.
  Localparts,   \* Of the addresses in requests: of "a", "A", "a+t", "r".
  Senders,      \* Of queued messages: records with acc and addr.
  MaxOps        \* Bound: operations.

VARIABLE g

Lower(lp) == IF lp = "A" THEN "a" ELSE lp
HasSep(lp) == lp = "a+t"
Base(lp) == IF lp = "a+t" THEN "a" ELSE lp

Addr(lp, d) == [lp |-> lp, dom |-> d]
Catchall(d) == Addr("", d)
Addresses == {Addr(lp, d) : lp \in Localparts, d \in Domains}

NoReport == [lp |-> "", acc |-> ""]

MatchReporting(lp, dc) == LET r == dc.report.lp IN r # "" /\ (lp = r \/ (dc.seps /\ HasSep(lp) /\ Base(lp) = r))

CanonicalLocalpart(localpart, dc) ==
  LET lp == IF dc.cs THEN localpart ELSE Lower(localpart)
  IN  IF MatchReporting(lp, dc) THEN dc.report.lp ELSE IF dc.seps THEN Base(lp) ELSE lp

-----------------------------------------------------------------------------
(* Checking a configuration.                                               *)

Names(f) == DOMAIN f
Dests(c) == UNION {{<<acc, a>> : a \in c.accounts[acc].dests} : acc \in Names(c.accounts)}

\* Settings that have no influence on the tables are "good" or "bad": of the configuration as
\* a whole (routes, web redirects and handlers, DNS blocklists), of a domain (disabled,
\* description, MTA-STS policy, routes) and of an account (rulesets, junk filter, webhooks).
checkSettings(c) == c.settings = "good"

\* The selectors that a domain signs with exist.
checkDomain(c, d) == c.domains[d].sign \subseteq Names(c.domains[d].sels)

\* The keys of selectors can be read.
checkSelectors(c, d, keys) == Range(c.domains[d].sels) \subseteq keys

checkMTASTS(c, d) == c.domains[d].settings = "good"

checkAccount(c, acc) == c.accounts[acc].settings = "good"

\* Key of a destination in the table, for a known domain.
DestKey(c, a) ==
  LET dc == c.domains[a.dom]
  IN  IF a.lp = "" \/ (dc.seps /\ HasSep(a.lp)) THEN a ELSE [a EXCEPT !.lp = CanonicalLocalpart(a.lp, dc)]

checkDest(c, x) ==
  LET a == x[2]
  IN  /\ a.dom \in Names(c.domains)
      /\ ~(c.domains[a.dom].seps /\ HasSep(a.lp))
      /\ \A y \in Dests(c) \ {x} : y[2].dom = a.dom => DestKey(c, y[2]) # DestKey(c, a)

\* Table of the destinations of a set of accounts.
Table(c, accs) ==
  LET pairs == {x \in Dests(c) : x[1] \in accs /\ x[2].dom \in Names(c.domains)}
  IN  [k \in {DestKey(c, x[2]) : x \in pairs} |-> (CHOOSE x \in pairs : DestKey(c, x[2]) = k)[1]]

\* The login addresses for which unique sender addresses are made. They are looked up
\* in the table with the accounts so far: the accounts are a map in Go, and are
\* visited in any order, here with the account last at the end.
checkFromID(c, acc, last) ==
  LET before == IF acc = last THEN Names(c.accounts) ELSE Names(c.accounts) \ {last}
      t == Table(c, before)
  IN  \A a \in c.accounts[acc].fromid :
        /\ a.dom \in Names(c.domains) /\ c.domains[a.dom].seps
        /\ \/ Catchall(a.dom) \in Names(t)
           \/ [a EXCEPT !.lp = CanonicalLocalpart(a.lp, c.domains[a.dom])] \in Names(t)

\* Reporting addresses of domains replace a destination for that address.
ReportKey(c, d) == Addr(LET lp == c.domains[d].report.lp IN IF c.domains[d].cs THEN lp ELSE Lower(lp), d)
Reporting(c) == {d \in Names(c.domains) : c.domains[d].report # NoReport}

checkReports(c) == \A d \in Reporting(c) : c.domains[d].report.acc \in Names(c.accounts)

AccountDestinations(c) ==
  LET t == Table(c, Names(c.accounts))
      r == [k \in {ReportKey(c, d) : d \in Reporting(c)} |-> c.domains[k.dom].report.acc]
  IN  [k \in Names(t) \cup Names(r) |-> IF k \in Names(r) THEN r[k] ELSE t[k]]

AliasKey(c, d, lp) == Addr(CanonicalLocalpart(lp, c.domains[d]), d)
AllAliases(c) == UNION {{<<d, lp>> : lp \in Names(c.domains[d].aliases)} : d \in Names(c.domains)}

\* With t the table of destinations: an alias is looked up like an address, cannot be one, and
\* has members that are. It is left out when it has no key of its own; of its members those
\* that exist are kept.
goodAlias(c, t, x) ==
  LET dc == c.domains[x[1]]
  IN  /\ ~(dc.seps /\ HasSep(x[2]))
      /\ AliasKey(c, x[1], x[2]) \notin Names(t)
      /\ dc.aliases[x[2]] # {}

AliasMembers(c, t, x) == c.domains[x[1]].aliases[x[2]] \cap Names(t)

checkAlias(c, t, x) ==
  /\ goodAlias(c, t, x)
  /\ AliasMembers(c, t, x) = c.domains[x[1]].aliases[x[2]]
  /\ \A y \in AllAliases(c) \ {x} : y[1] = x[1] => AliasKey(c, y[1], y[2]) # AliasKey(c, x[1], x[2])

AliasTable(c, t) ==
  LET good == {x \in AllAliases(c) : goodAlias(c, t, x)}
  IN  [k \in {AliasKey(c, x[1], x[2]) : x \in good} |->
         AliasMembers(c, t, CHOOSE x \in good : AliasKey(c, x[1], x[2]) = k)]

\* The derived field Aliases of accounts.
WithAliases(c, t) ==
  LET good == {x \in AllAliases(c) : goodAlias(c, t, x)}
      all == UNION {{[sub |-> m, alias |-> x] : m \in AliasMembers(c, t, x)} : x \in good}
  IN  [acc \in Names(c.accounts) |-> [c.accounts[acc] EXCEPT !.aliases = {s \in all : t[s.sub] = acc}]]

\* Whether the configuration is valid.
Valid(c, t, keys, last) ==
  /\ Postmaster \in Names(c.accounts)
  /\ checkSettings(c)
  /\ \A d \in Names(c.domains) : checkDomain(c, d) /\ checkSelectors(c, d, keys) /\ checkMTASTS(c, d)
  /\ \A acc \in Names(c.accounts) : checkAccount(c, acc)
  /\ \A x \in Dests(c) : checkDest(c, x)
  /\ \A acc \in Names(c.accounts) : checkFromID(c, acc, last)
  /\ checkReports(c)
  /\ \A x \in AllAliases(c) : checkAlias(c, t, x)

\* As it is written to the file.
Raw(c) == [c EXCEPT !.accounts = [acc \in Names(c.accounts) |-> [c.accounts[acc] EXCEPT !.aliases = {}]]]

\* Whether the configuration is valid, and what it is when active.
prepareDynamicConfig(c, keys, last) ==
  LET t == AccountDestinations(c)
  IN  [ok |-> Valid(c, t, keys, last),
       live |-> [c |-> [c EXCEPT !.accounts = WithAliases(c, t)], dests |-> t, aliases |-> AliasTable(c, t)]]

\* The account of an address, "" if it has none or is an alias.
LookupAddress(live, a) ==
  LET k == [a EXCEPT !.lp = CanonicalLocalpart(@, live.c.domains[a.dom])]
  IN  IF a.dom \notin Names(live.c.domains) THEN ""
      ELSE IF k \in Names(live.dests) THEN live.dests[k]
      ELSE IF k \in Names(live.aliases) THEN ""
      ELSE IF Catchall(a.dom) \in Names(live.dests) THEN live.dests[Catchall(a.dom)] ELSE ""

-----------------------------------------------------------------------------
(* The running server.                                                     *)

NewDomain(seps) ==
  [settings |-> "good", seps |-> seps, cs |-> FALSE, sels |-> <<>>, sign |-> {}, report |-> NoReport, aliases |-> <<>>]
NewAccount(a) == [dests |-> {a}, fromid |-> {}, settings |-> "good", aliases |-> {}]

\* live: the active configuration and tables; loaded: live as it was activated; failed: the
\* operations that failed since and shared its accounts. disk: the file; by: what changed it since
\* it was last activated: an edit by hand, an operation that failed after writing it ("torn" if
\* not all of it), or nothing. keys: private key files, of which two domains can use the same;
\* old: those moved away. tpk: login addresses of TLS public keys, with the account. orphans:
\* the queued messages of which an operation removed the sender address.
Init ==
  LET first == CHOOSE d \in Domains : TRUE
      c(ds) == [domains |-> [d \in ds |-> [NewDomain(TRUE) EXCEPT !.sels = [s \in Selectors |-> 0], !.sign = Selectors]],
                accounts |-> [acc \in {Postmaster} |-> NewAccount(Addr("a", first))],
                settings |-> "good"]
      live(ds) == prepareDynamicConfig(c(ds), {0}, Postmaster).live
  IN  \E ds \in {{first}, Domains}, tpk \in {{}, {[acc |-> Postmaster, addr |-> Addr("a", first)]}} :
        g = [live |-> live(ds), loaded |-> live(ds), failed |-> {},
             disk |-> c(ds), by |-> "", keys |-> {0}, old |-> {}, queued |-> Senders,
             tpk |-> tpk, orphans |-> {}, ops |-> 0]

\* DynamicLockUnlock: at most once per second the file is checked for changes, and loaded
\* if valid. What this gives for the state of an operation.
Loaded(last) ==
  LET p == prepareDynamicConfig(g.disk, g.keys, last)
  IN  IF p.ok THEN [g EXCEPT !.live = p.live, !.loaded = p.live, !.failed = {}, !.by = ""] ELSE g

Locked == {g} \cup (IF g.by # "" THEN {Loaded(last) : last \in Names(g.disk.accounts)} ELSE {})

Fails(e) == [e EXCEPT !.ops = @ + 1]

gatherUsedKeysPaths(c) == UNION {Range(c.domains[d].sels) : d \in Names(c.domains)}

\* As moveAwayKeys, but for keys that other domains use.
moveAwayAllKeys(e, files, used) == [e EXCEPT !.keys = @ \ (files \ e.old), !.old = @ \cup files]

moveAwayKeys(e, files, used) ==
  LET moved == (files \ used) \ e.old
  IN  [e EXCEPT !.keys = @ \ moved, !.old = @ \cup moved]

\* What an operation does, from state e: nothing but fail, or have configuration nc written.
\* Shared are the maps that nc has in common with the active configuration; keys are the
\* key files to go back to at an error; files those to move away at success.
Refused(e, op) == [e |-> e, op |-> op, refused |-> TRUE]
Write(e, nc, shared, op) ==
  [e |-> e, op |-> op, refused |-> FALSE, nc |-> nc, shared |-> shared, keys |-> e.keys, files |-> {}]

\* The write fails at the given point: the configuration is not valid, the file cannot be
\* written, or an error follows after writing part or all of it.
WriteFails(w, p, at) ==
  Fails([w.e EXCEPT !.live.c.accounts = IF "accounts" \in w.shared THEN p.live.c.accounts ELSE @,
                    !.failed = IF "accounts" \in w.shared THEN @ \cup {w.op} ELSE @,
                    !.disk = CASE at = "torn" -> [Raw(w.nc) EXCEPT !.settings = "bad"]
                               [] at = "written" -> Raw(w.nc)
                               [] OTHER -> @,
                    !.by = CASE at = "torn" -> "torn" [] at = "written" -> w.op [] OTHER -> @,
                    !.keys = w.keys])

\* The messages of which AddressRemove takes the sender address from the account.
Orphans(w, p) ==
  {m \in w.e.queued : /\ w.op = "AddressRemove"
                      /\ LookupAddress(w.e.live, m.addr) = m.acc
                      /\ LookupAddress(p.live, m.addr) # m.acc}

\* Writes and activates the configuration.
WriteSucceeds(w, p) ==
  moveAwayKeys([w.e EXCEPT !.live = p.live, !.loaded = p.live, !.failed = {}, !.disk = Raw(w.nc),
                           !.by = "", !.orphans = @ \cup Orphans(w, p), !.ops = @ + 1],
               w.files, gatherUsedKeysPaths(w.nc))

WriteDynamicLocked(w, last) ==
  LET p == prepareDynamicConfig(w.nc, w.e.keys, last)
  IN  IF p.ok THEN {WriteSucceeds(w, p)} \cup {WriteFails(w, p, at) : at \in {"opening", "torn", "written"}}
      ELSE {WriteFails(w, p, "invalid")}

\* The states that the operation can end in.
Results(w) ==
  IF w.refused THEN {Fails(w.e)}
  ELSE UNION {WriteDynamicLocked(w, last) : last \in Names(w.nc.accounts)}

Put(f, k, v) == [x \in Names(f) \cup {k} |-> IF x = k THEN v ELSE f[x]]
Drop(f, k) == [x \in Names(f) \ {k} |-> f[x]]

-----------------------------------------------------------------------------
(* Domains.                                                                *)

\* DomainSave with a change of the domain, for the settings of the admin interface, if it is
\* allowed.
DomainSave(e, d, changed, allowed, op) ==
  LET c == e.live.c
  IN  IF d \notin Names(c.domains) \/ ~allowed THEN Refused(e, op)
      ELSE Write(e, [c EXCEPT !.domains = Put(@, d, changed)], {"accounts"}, op)

\* Also for a description, MTA-STS policy, routes and the client settings domain.
DomainDisabledSave(e, d, v) ==
  LET dc == e.live.c.domains[d]
      changed == [dc EXCEPT !.settings = v]
      allowed == TRUE
  IN  DomainSave(e, d, changed, allowed, "DomainDisabledSave")

DomainLocalpartConfigSave(e, d, seps, cs) ==
  LET dc == e.live.c.domains[d]
      changed == [dc EXCEPT !.seps = seps, !.cs = cs]
      allowed == dc.seps \/ ~seps \/ ~HasSep(dc.report.lp)
  IN  DomainSave(e, d, changed, allowed, "DomainLocalpartConfigSave")

\* The addresses for DMARC and TLS reports, of which one is modelled.
DomainReportAddressSave(e, d, lp, acc) ==
  LET dc == e.live.c.domains[d]
      changed == [dc EXCEPT !.report = IF lp = "" THEN NoReport ELSE [lp |-> lp, acc |-> acc]]
      allowed == dc.report.lp = lp \/ ~(dc.seps /\ HasSep(lp))
  IN  DomainSave(e, d, changed, allowed, "DomainReportAddressSave")

DomainDKIMSave(e, d, sign) ==
  LET dc == e.live.c.domains[d]
      changed == [dc EXCEPT !.sign = sign]
      allowed == sign \subseteq Names(dc.sels)
  IN  DomainSave(e, d, changed, allowed, "DomainDKIMSave")

AliasAdd(e, d, lp, members) ==
  LET dc == e.live.c.domains[d]
      changed == [dc EXCEPT !.aliases = Put(@, lp, members)]
      allowed == lp \notin Names(dc.aliases)
  IN  DomainSave(e, d, changed, allowed, "AliasAdd")

AliasRemove(e, d, lp) ==
  LET dc == e.live.c.domains[d]
      changed == [dc EXCEPT !.aliases = Drop(@, lp)]
      allowed == lp \in Names(dc.aliases)
  IN  DomainSave(e, d, changed, allowed, "AliasRemove")

\* Adding an address that is already a member is refused later on, as duplicate.
AliasAddressesAdd(e, d, lp, a) ==
  LET dc == e.live.c.domains[d]
      changed == [dc EXCEPT !.aliases[lp] = @ \cup {a}]
      allowed == lp \in Names(dc.aliases) /\ a \notin dc.aliases[lp]
  IN  DomainSave(e, d, changed, allowed, "AliasAddressesAdd")

AliasAddressesRemove(e, d, lp, a) ==
  LET dc == e.live.c.domains[d]
      changed == [dc EXCEPT !.aliases[lp] = @ \ {a}]
      allowed == lp \in Names(dc.aliases) /\ a \in dc.aliases[lp]
  IN  DomainSave(e, d, changed, allowed, "AliasAddressesRemove")

\* For a configuration as a whole: both maps are shared.
ConfigSave(e, v) == Write(e, [e.live.c EXCEPT !.settings = v], {"accounts", "domains"}, "ConfigSave")

\* The new key file is removed again at an error.
DKIMAdd(e, d, sel) ==
  LET c == e.live.c
      file == e.ops + 1
      nc == [c EXCEPT !.domains[d].sels = Put(@, sel, file)]
  IN  IF d \notin Names(c.domains) THEN Refused(e, "DKIMAdd")
      ELSE IF sel \in Names(c.domains[d].sels) THEN Refused(e, "DKIMAdd")
      ELSE [Write([e EXCEPT !.keys = @ \cup {file}], nc, {"accounts"}, "DKIMAdd") EXCEPT !.keys = e.keys]

DKIMRemove(e, d, sel) ==
  LET c == e.live.c
      nc == [c EXCEPT !.domains[d].sels = Drop(@, sel), !.domains[d].sign = @ \ {sel}]
  IN  IF d \notin Names(c.domains) THEN Refused(e, "DKIMRemove")
      ELSE IF sel \notin Names(c.domains[d].sels) THEN Refused(e, "DKIMRemove")
      ELSE [Write(e, nc, {"accounts"}, "DKIMRemove") EXCEPT !.files = {c.domains[d].sels[sel]}]

\* A domain with its first keys, reporting addresses, and an address for a new account, or
\* a postmaster address ("p") for an existing one. This changes the active map with accounts.
DomainAdd(e, d, acc, lp) ==
  LET c == e.live.c
      file == e.ops + 1
      exists == acc \in Names(c.accounts)
      dc == [NewDomain(TRUE) EXCEPT !.sels = [s \in Selectors |-> file], !.sign = Selectors, !.report = [lp |-> "r", acc |-> acc]]
      accounts == IF ~exists THEN Put(c.accounts, acc, NewAccount(Addr(lp, d)))
                  ELSE IF acc # Postmaster THEN [c.accounts EXCEPT ![acc].dests = @ \cup {Addr("p", d)}]
                  ELSE c.accounts
      nc == [c EXCEPT !.domains = Put(@, d, dc), !.accounts = accounts]
  IN  IF d \in Names(c.domains) \/ (exists /\ lp # "") \/ (~exists /\ lp = "") THEN Refused(e, "DomainAdd")
      ELSE [Write([e EXCEPT !.keys = @ \cup {file}], nc, {"accounts"}, "DomainAdd") EXCEPT !.keys = e.keys]

DomainRemove(e, d) ==
  LET c == e.live.c
      nc == [c EXCEPT !.domains = Drop(@, d)]
  IN  IF d \notin Names(c.domains) \/ (\E k \in e.tpk : k.addr.dom = d) THEN Refused(e, "DomainRemove")
      ELSE [Write(e, nc, {"accounts"}, "DomainRemove") EXCEPT !.files = Range(c.domains[d].sels)]

-----------------------------------------------------------------------------
(* Accounts and addresses.                                                 *)

checkAddressAvailable(e, a) ==
  LET c == e.live.c
      lp == CanonicalLocalpart(a.lp, c.domains[a.dom])
  IN  /\ a.dom \in Names(c.domains)
      /\ Addr(lp, a.dom) \notin Names(e.live.dests)
      /\ ~(c.domains[a.dom].seps /\ HasSep(a.lp))
      /\ lp \notin Names(c.domains[a.dom].aliases)

\* The directory of a removed account may still be there (leftover).
AccountAdd(e, acc, a, leftover) ==
  LET c == e.live.c
  IN  IF acc \in Names(c.accounts) \/ leftover \/ ~checkAddressAvailable(e, a) THEN Refused(e, "AccountAdd")
      ELSE Write(e, [c EXCEPT !.accounts = Put(@, acc, NewAccount(a))], {}, "AccountAdd")

\* Queued messages of the account are failed first, also when the removal then fails.
AccountRemove(e0, acc) ==
  LET e == [e0 EXCEPT !.queued = {m \in @ : m.acc # acc}]
      c == e.live.c
  IN  IF acc \notin Names(c.accounts) THEN Refused(e0, "AccountRemove")
      ELSE IF Names(c.accounts) = {acc} THEN Refused(e, "AccountRemove")
      ELSE Write(e, [c EXCEPT !.accounts = Drop(@, acc)], {}, "AccountRemove")

AddressAdd(e, a, acc) ==
  LET c == e.live.c
      available == IF a.lp = "" THEN a.dom \in Names(c.domains) /\ a \notin Names(e.live.dests)
                   ELSE checkAddressAvailable(e, a)
  IN  IF acc \notin Names(c.accounts) \/ ~available THEN Refused(e, "AddressAdd")
      ELSE Write(e, [c EXCEPT !.accounts[acc].dests = @ \cup {a}], {}, "AddressAdd")

\* Whether a message in the queue depends on address a of account acc.
\* As NeededInQueue, but with the sender address as it is in the queue.
NeededInQueueAsIs(e, acc, a, m) ==
  LET sa == m.addr
      t == e.live.dests
  IN  IF a.lp = "" THEN ~(sa \in Names(t) /\ t[sa] = acc)
      ELSE ~(Catchall(m.addr.dom) \in Names(t) /\ t[Catchall(m.addr.dom)] = acc) /\ sa = a

NeededInQueue(e, acc, a, m) ==
  LET sa == [m.addr EXCEPT !.lp = CanonicalLocalpart(@, e.live.c.domains[m.addr.dom])]
      t == e.live.dests
  IN  IF a.lp = "" THEN ~(sa \in Names(t) /\ t[sa] = acc)
      ELSE ~(Catchall(m.addr.dom) \in Names(t) /\ t[Catchall(m.addr.dom)] = acc) /\ sa = a

\* Whether a TLS public key of the account has the address as login address.
NeededByKey(e, a, k) ==
  LET ca == [k.addr EXCEPT !.lp = CanonicalLocalpart(@, e.live.c.domains[a.dom])]
  IN  ca \in Names(e.live.dests) /\ ca.lp = a.lp

\* The domains, with the address removed from the aliases that the account has it in.
WithoutMember(c, subs, a) ==
  [d \in Names(c.domains) |->
     [c.domains[d] EXCEPT !.aliases = [lp \in Names(@) |-> IF \E s \in subs : s.alias = <<d, lp>> THEN @[lp] \ {a} ELSE @[lp]]]]

AddressRemove(e, a) ==
  LET c == e.live.c
      acc == e.live.dests[a]
      ac == c.accounts[acc]
      subs == {s \in ac.aliases : s.sub = a}
      dc == c.domains[a.dom]
      same(fa) == fa.dom = a.dom /\ (a.lp = "" \/ CanonicalLocalpart(fa.lp, dc) = CanonicalLocalpart(a.lp, dc))
      mine == {m \in e.queued : m.acc = acc}
      refused ==
        \/ a \notin Names(e.live.dests)
        \/ acc \notin Names(c.accounts)
        \/ a \notin ac.dests
        \/ a.dom \notin Names(c.domains)
        \/ \E k \in {k \in e.tpk : k.acc = acc} : NeededByKey(e, a, k)
        \/ \E s \in subs : ~(/\ s.alias[1] \in Names(c.domains) /\ s.alias[2] \in Names(c.domains[s.alias[1]].aliases)
                             /\ c.domains[s.alias[1]].aliases[s.alias[2]] \ {a} # {})
        \/ \E m \in mine : m.addr.dom \notin Names(c.domains) \/ NeededInQueue(e, acc, a, m)
      nc == [c EXCEPT !.accounts[acc] = [ac EXCEPT !.dests = @ \ {a}, !.fromid = {fa \in @ : ~same(fa)}, !.aliases = {}],
                      !.domains = WithoutMember(c, subs, a)]
  IN  IF refused THEN Refused(e, "AddressRemove") ELSE Write(e, nc, {}, "AddressRemove")

AccountSave(e, acc, ac) ==
  LET c == e.live.c
  IN  IF acc \notin Names(c.accounts) THEN Refused(e, "AccountSave")
      ELSE Write(e, [c EXCEPT !.accounts[acc] = ac], {}, "AccountSave")

\* The login addresses with unique sender addresses.
FromIDLoginAddressesSave(e, acc, fromid) ==
  AccountSave(e, acc, IF acc \in Names(e.live.c.accounts) THEN [e.live.c.accounts[acc] EXCEPT !.fromid = fromid] ELSE <<>>)

\* Settings of a destination, webhooks, junk filter, rejects, full name, limits.
AccountSettingsSave(e, acc, v) ==
  AccountSave(e, acc, IF acc \in Names(e.live.c.accounts) THEN [e.live.c.accounts[acc] EXCEPT !.settings = v] ELSE <<>>)
-----------------------------------------------------------------------------
(* What operators and account holders can ask for.                         *)

DomainOps(e, d) ==
  {DomainDisabledSave(e, d, v) : v \in {"good", "bad"}}
    \cup {DomainLocalpartConfigSave(e, d, seps, cs) : seps, cs \in BOOLEAN}
    \cup {DomainReportAddressSave(e, d, lp, acc) : lp \in {"", "r"}, acc \in Accounts}
    \cup {DomainDKIMSave(e, d, sign) : sign \in SUBSET Selectors}
    \cup {DKIMAdd(e, d, sel) : sel \in Selectors} \cup {DKIMRemove(e, d, sel) : sel \in Selectors}
    \cup {DomainAdd(e, d, acc, lp) : acc \in Accounts, lp \in Localparts \cup {""}}
    \cup {DomainRemove(e, d)}

AliasOps(e, d, lp) ==
  {AliasAdd(e, d, lp, {a}) : a \in Addresses} \cup {AliasRemove(e, d, lp)}
    \cup {AliasAddressesAdd(e, d, lp, a) : a \in Addresses}
    \cup {AliasAddressesRemove(e, d, lp, a) : a \in Addresses}

AccountOps(e, acc) ==
  {AccountAdd(e, acc, a, leftover) : a \in Addresses, leftover \in BOOLEAN} \cup {AccountRemove(e, acc)}
    \cup {AddressAdd(e, a, acc) : a \in Addresses \cup {Catchall(d) : d \in Domains}}
    \cup {FromIDLoginAddressesSave(e, acc, fromid) : fromid \in {{}} \cup {{a} : a \in Addresses}}
    \cup {AccountSettingsSave(e, acc, v) : v \in {"good", "bad"}}

Operations(e) ==
  UNION {DomainOps(e, d) : d \in Domains}
    \cup UNION {AliasOps(e, d, lp) : d \in Domains, lp \in Localparts}
    \cup UNION {AccountOps(e, acc) : acc \in Accounts}
    \cup {AddressRemove(e, a) : a \in Addresses \cup {Catchall(d) : d \in Domains}}
    \cup {ConfigSave(e, v) : v \in {"good", "bad"}}

\* The file is changed by hand: to a configuration without a domain, or with a bad setting.
EditFile ==
  \E c \in {[g.disk EXCEPT !.settings = "bad"]} \cup {[g.disk EXCEPT !.domains = Drop(@, d)] : d \in Names(g.disk.domains)} :
    g' = [g EXCEPT !.disk = c, !.by = "edit", !.ops = @ + 1]

\* Every lookup takes the lock, and may find the file changed.
Lookup == g.by # "" /\ g' \in Locked

Next ==
  \/ g.ops < MaxOps /\ \E e \in Locked : \E w \in Operations(e) : g' \in Results(w)
  \/ g.ops < MaxOps /\ EditFile
  \/ Lookup

-----------------------------------------------------------------------------
(* Properties.                                                             *)

OwnFromIDs(live) ==
  \A acc \in Names(live.c.accounts) : \A a \in live.c.accounts[acc].fromid : LookupAddress(live, a) = acc

\* After any sequence of operations, failed and successful, a restart finds a configuration that
\* is valid, with all its keys. If no operation failed after it wrote the file, it also has the
\* accounts, addresses and aliases that are in use; only a DomainAdd that failed may have left an
\* account in use that is not in the file. Excepted are a file that was edited by hand or only
\* written in part; one written by a DKIMAdd or DomainAdd that then failed, and removed the key
\* that the file names; and unique sender addresses that are not the account's own.
ConfigLoads ==
  g.by \notin {"edit", "torn", "DKIMAdd", "DomainAdd"} =>
    \A last \in Names(g.disk.accounts) :
      LET p == prepareDynamicConfig(g.disk, g.keys, last)
      IN  OwnFromIDs(p.live) =>
            /\ p.ok
            /\ g.by = "" => /\ p.live.dests = g.live.dests /\ p.live.aliases = g.live.aliases
                            /\ "DomainAdd" \notin g.failed => Raw(p.live.c) = Raw(g.live.c)

\* An operation that fails leaves no trace in the active configuration, but for two: DomainAdd
\* leaves the account or address it added (not in the tables by which addresses are found), and
\* every operation that shares the accounts with the active configuration leaves their list of
\* aliases as it would have become.
TracesKnown ==
  /\ g.failed = {} => g.live = g.loaded
  /\ "DomainAdd" \notin g.failed => Raw(g.live.c) = Raw(g.loaded.c)
  /\ [g.live EXCEPT !.c.accounts = <<>>] = [g.loaded EXCEPT !.c.accounts = <<>>]

\* An address that is removed is not that of the sender of a queued message of the account: it
\* keeps belonging to the account, so its DSNs can be delivered (AddressRemove).
SendersKept == g.orphans = {}

=============================================================================
