------------------------------- MODULE SmtpTls -------------------------------
(***************************************************************************)
(* TLS in the SMTP client (smtpclient/client.go): what a connection must   *)
(* satisfy, given how TLS was asked for, and the certificate of the remote *)
(* host.                                                                   *)
(***************************************************************************)
EXTENDS Integers

\* opts: mode, pkix (tlsVerifyPKIX), dane ("nil" for no records) and ignore
\* (IgnoreTLSVerifyErrors). remote: what the host announces, whether STARTTLS and
\* the handshake succeed, and whether its certificate is valid for PKIX and DANE.
Remotes ==
  [announced : BOOLEAN, starttls : BOOLEAN, handshake : BOOLEAN, pkix : BOOLEAN,
   dane : BOOLEAN, requiretls : BOOLEAN]

\* Both are verified, for the reports, but only what was asked for may fail the
\* connection.
daneErr(opts, remote) == opts.dane = "records" /\ ~remote.dane /\ ~opts.ignore
pkixErr(opts, remote) == opts.pkix /\ ~remote.pkix /\ ~opts.ignore
verifyConnection(opts, remote) == ~daneErr(opts, remote) /\ ~pkixErr(opts, remote)

handshake(opts, remote) == remote.handshake /\ verifyConnection(opts, remote)

\* Whether hello attempts STARTTLS.
attemptTLS(opts, announced) ==
  (announced /\ opts.mode = "opportunistic") \/ opts.mode = "requiredstarttls"

\* The outcome of New as far as TLS decides it: the kind of error, and whether
\* the connection uses TLS.
NewTLS(opts, remote) ==
  CASE opts.mode = "immediate" ->
         IF handshake(opts, remote) THEN [err |-> "none", tls |-> TRUE]
         ELSE [err |-> "handshake", tls |-> FALSE]
    [] attemptTLS(opts, remote.announced) ->
         IF remote.starttls /\ handshake(opts, remote) THEN [err |-> "none", tls |-> TRUE]
         ELSE [err |-> "tls", tls |-> FALSE]
    [] OTHER -> [err |-> "none", tls |-> FALSE]

\* What the options promise of a connection that is used.
Promised(opts, remote, tls) ==
  /\ opts.mode \in {"immediate", "requiredstarttls"} => tls
  /\ opts.mode = "skip" => ~tls
  /\ tls /\ ~opts.ignore => /\ opts.pkix => remote.pkix
                            /\ opts.dane = "records" => remote.dane
=============================================================================
