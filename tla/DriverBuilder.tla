-------------------------- MODULE DriverBuilder --------------------------
(***************************************************************************)
(* ReqwestHttpDriver::builder of src/http.rs, with the TLS options of       *)
(* src/tls.rs and the proxy options of src/proxy.rs: in which order the     *)
(* options are looked at, what reaches the reqwest client and which of      *)
(* several faults is reported.  Every other constructor calls builder.      *)
(*                                                                         *)
(* The two body limits are only stored and left out.  reqwest's part is     *)
(* external: it may refuse a damaged certificate when it is added or when   *)
(* the client is built, and it may fail to build for reasons of its own.    *)
(***************************************************************************)
VARIABLES
    asked,    \* the options the caller gives
    caFile,   \* what the file of TlsMode::CustomCa holds
    pc,       \* the next part of builder
    client,   \* what has been given to reqwest's ClientBuilder
    answer    \* what builder returned

vars == <<asked, caFile, pc, client, answer>>
inputs == <<asked, caFile>>

Modes == {"SystemRoots", "CustomCa", "InsecureDevOnly"}

\* No TlsConfig, or one; no ProxyConfig, or one whose URL reqwest takes or not.
Tls == [given : {FALSE}, mode : {"SystemRoots"}, sni : {TRUE}]
       \cup [given : {TRUE}, mode : Modes, sni : BOOLEAN]

Proxies == [given : {FALSE}, validUrl : {TRUE}, username : {FALSE}, password : {FALSE}]
           \cup [given : {TRUE}, validUrl : BOOLEAN, username : BOOLEAN, password : BOOLEAN]

Requests == [timeout : BOOLEAN, tls : Tls, proxy : Proxies]

\* Not to be read; not UTF-8; text without BEGIN CERTIFICATE; with it and not
\* decodable; a certificate.
CaFiles == {"unreadable", "binary", "headless", "damaged", "pem"}

Clients == [timeout : BOOLEAN, ca : BOOLEAN, insecure : BOOLEAN,
            proxy : BOOLEAN, auth : BOOLEAN]

Parts == {"timeout", "tls", "proxy", "build", "done"}

Answers == {"none", "Ok", "ProtocolViolation", "Io"}

Init ==
    /\ asked \in Requests
    /\ caFile \in CaFiles
    /\ pc = "timeout"
    /\ client = [timeout |-> FALSE, ca |-> FALSE, insecure |-> FALSE,
                 proxy |-> FALSE, auth |-> FALSE]
    /\ answer = "none"

-----------------------------------------------------------------------------
Goto(part) == pc' = part /\ UNCHANGED <<inputs, answer>>

Return(a) == pc' = "done" /\ answer' = a /\ UNCHANGED <<inputs, client>>

\* Mutant: a build failure is a protocol violation.
MapClientBuildErrorViolation == "ProtocolViolation"

\* map_client_build_error
MapClientBuildError == "Io"

\* Mutant: the timeout is not handed on.
ApplyTimeoutForgotten ==
    /\ pc = "timeout"
    /\ UNCHANGED client
    /\ Goto(IF asked.tls.given THEN "tls" ELSE "proxy")

ApplyTimeout ==
    /\ pc = "timeout"
    /\ client' = [client EXCEPT !.timeout = asked.timeout]
    /\ Goto(IF asked.tls.given THEN "tls" ELSE "proxy")

\* sni = false is refused before the mode is looked at.
RefuseSni ==
    /\ pc = "tls"
    /\ ~asked.tls.sni
    /\ Return("ProtocolViolation")

\* SystemRoots is what reqwest does anyway.
KeepSystemRoots ==
    /\ pc = "tls"
    /\ asked.tls.sni
    /\ asked.tls.mode = "SystemRoots"
    /\ UNCHANGED client
    /\ Goto("proxy")

AcceptInvalidCerts ==
    /\ pc = "tls"
    /\ asked.tls.sni
    /\ asked.tls.mode = "InsecureDevOnly"
    /\ client' = [client EXCEPT !.insecure = TRUE]
    /\ Goto("proxy")

\* Mutant: an error of its own for a file that cannot be read.
CaErrorUnlisted(file) ==
    CASE file = "unreadable" -> "NotFound"
      [] file \in {"binary", "headless"} -> "ProtocolViolation"

\* What a file is refused with before reqwest sees it.
CaError(file) ==
    CASE file = "unreadable" -> "Io"
      [] file \in {"binary", "headless"} -> "ProtocolViolation"

\* Mutant: the certificate is loaded whatever sni is.
LoadCustomCaFirst ==
    /\ pc = "tls"
    /\ asked.tls.mode = "CustomCa"
    /\ \/ caFile \in {"unreadable", "binary", "headless"} /\ Return(CaError(caFile))
       \/ caFile = "damaged" /\ Return(MapClientBuildError)
       \/ /\ caFile \in {"damaged", "pem"}
          /\ client' = [client EXCEPT !.ca = TRUE]
          /\ Goto("proxy")

\* Read the file, look at it, hand it to reqwest, which may refuse it here.
LoadCustomCa ==
    /\ pc = "tls"
    /\ asked.tls.sni
    /\ asked.tls.mode = "CustomCa"
    /\ \/ caFile \in {"unreadable", "binary", "headless"} /\ Return(CaError(caFile))
       \/ caFile = "damaged" /\ Return(MapClientBuildError)
       \/ /\ caFile \in {"damaged", "pem"}
          /\ client' = [client EXCEPT !.ca = TRUE]
          /\ Goto("proxy")

SkipProxy ==
    /\ pc = "proxy"
    /\ ~asked.proxy.given
    /\ UNCHANGED client
    /\ Goto("build")

\* build_reqwest_proxy: basic_auth wants both halves.
ApplyProxy ==
    /\ pc = "proxy"
    /\ asked.proxy.given
    /\ \/ ~asked.proxy.validUrl /\ Return("ProtocolViolation")
       \/ /\ asked.proxy.validUrl
          /\ client' = [client EXCEPT
                 !.proxy = TRUE,
                 !.auth = asked.proxy.username /\ asked.proxy.password]
          /\ Goto("build")

\* reqwest's ClientBuilder::build
Build ==
    /\ pc = "build"
    /\ \/ Return("Ok")
       \/ Return(MapClientBuildError)

\* builder has returned.
Done == pc = "done" /\ UNCHANGED vars

Next ==
    \/ ApplyTimeout
    \/ RefuseSni
    \/ KeepSystemRoots
    \/ AcceptInvalidCerts
    \/ LoadCustomCa
    \/ SkipProxy
    \/ ApplyProxy
    \/ Build
    \/ Done

Spec == Init /\ [][Next]_vars

-----------------------------------------------------------------------------
(* Properties.                                                             *)

\* The variables have their types.
TypeOK ==
    /\ asked \in Requests
    /\ caFile \in CaFiles
    /\ pc \in Parts
    /\ client \in Clients
    /\ answer \in Answers

UsesCa == asked.tls.given /\ asked.tls.mode = "CustomCa"

\* A driver is handed out only if ClientBuilder was given what the caller asked
\* for, proxy credentials apart: above all unchecked certificates for
\* InsecureDevOnly alone, and the root of CustomCa; and sni = false never passes.
\* What reqwest has by default, roots or a proxy of the environment, is its own.
OkMeansAsAsked ==
    answer = "Ok" =>
        /\ client.timeout = asked.timeout
        /\ client.insecure = (asked.tls.given /\ asked.tls.mode = "InsecureDevOnly")
        /\ client.ca = UsesCa
        /\ client.proxy = asked.proxy.given
        /\ UsesCa => caFile \in {"damaged", "pem"}
        /\ asked.tls.sni
        /\ asked.proxy.validUrl

\* ProtocolViolation, which is_retryable calls permanent, is the fault of an
\* option; a failure of reqwest or of the file system is never called that.
ViolationIsDeserved ==
    answer = "ProtocolViolation" =>
        \/ ~asked.tls.sni
        \/ UsesCa /\ caFile \in {"binary", "headless"}
        \/ ~asked.proxy.validUrl

\* sni = false is reported as permanent whatever else is wrong: no unreadable
\* certificate file and no failure of the build comes first and invites a retry.
SniOffIsPermanent ==
    ~asked.tls.sni /\ pc = "done" => answer = "ProtocolViolation"

\* What makes the three inductive: how far each part of builder has come.
PartsInOrder ==
    /\ pc = "done" <=> answer # "none"
    /\ pc = "timeout" \/ client.timeout = asked.timeout
    /\ pc = "tls" => asked.tls.given
    /\ pc \in {"timeout", "tls"} => ~client.ca /\ ~client.insecure
    /\ pc \in {"timeout", "tls", "proxy"} => ~client.proxy
    /\ pc \in {"proxy", "build"} =>
          /\ asked.tls.sni
          /\ client.insecure = (asked.tls.given /\ asked.tls.mode = "InsecureDevOnly")
          /\ client.ca = UsesCa
          /\ UsesCa => caFile \in {"damaged", "pem"}
    /\ pc = "build" => client.proxy = asked.proxy.given /\ asked.proxy.validUrl

\* "Whether authentication is configured": what the documentation of
\* ProxyConfig::has_auth says of a configuration, of the client built from it.
HasAuth == asked.proxy.username \/ asked.proxy.password
ConfiguredAuthIsUsed == answer = "Ok" /\ HasAuth => client.auth
=============================================================================
