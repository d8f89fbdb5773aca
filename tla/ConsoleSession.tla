--------------------------- MODULE ConsoleSession ---------------------------
(***************************************************************************)
(* The console's sign-in: the session provider (lib/session.jsx), the      *)
(* token and the requests of lib/api.js, the login form (pages/login.jsx)  *)
(* and the gate in App.jsx.  A reading request carries the signal of the   *)
(* screen that sent it and is aborted when the screens are unmounted; the  *)
(* download of a patch carries none and outlives them.                     *)
(*                                                                         *)
(* The server is external: it accepts one token, or anything at all with   *)
(* --no-auth, and an operator may replace the token.                       *)
(***************************************************************************)
EXTENDS Naturals

CONSTANTS Tokens,       \* bearer tokens; "" is no token
          Feeds,        \* the screens' reads, one request of each at a time
          Downloads,    \* patch downloads that can be under way at once
          MaxRotations, \* how often the server's token is replaced
          MaxFailures   \* how many requests fail without an answer or with a 5xx

ASSUME SessionAssumption ==
  /\ "" \notin Tokens /\ "none" \notin Tokens
  /\ Feeds \cap Downloads = {}
  /\ MaxRotations \in Nat
  /\ MaxFailures \in Nat

VARIABLES
  status,    \* "loading", "authenticated" or "unauthenticated"
  token,     \* getToken()
  session,   \* the token the session document was issued for
  verifying, \* the candidate of the verification under way, or "none"
  notice,    \* the sentence of the login form
  requests,  \* what each of them has under way
  accepts,   \* the tokens the server accepts
  rotations, failures

sessionVars == <<status, token, session, verifying, notice, requests, accepts,
                 rotations, failures>>

Slots == Feeds \cup Downloads
Bearers == Tokens \cup {""}
Idle == [kind |-> "idle", token |-> "", phase |-> "sent"]
RequestType == [kind : {"idle", "read", "download"}, token : Bearers,
                phase : {"sent", "ok", "unauthorized", "failed"}]

SessionTypeOK ==
  /\ status \in {"loading", "authenticated", "unauthenticated"}
  /\ token \in Bearers
  /\ session \in Bearers \cup {"none"}
  /\ verifying \in Bearers \cup {"none"}
  /\ notice \in {"", "rejected", "unreachable", "expired"}
  /\ requests \in [Slots -> RequestType]
  /\ accepts \subseteq Bearers
  /\ rotations \in 0..MaxRotations
  /\ failures \in 0..MaxFailures

\* One token, or --no-auth.
Policies == {{t} : t \in Tokens} \cup {Bearers}

\* A tab opens with the token of its sessionStorage, or with none: the provider
\* probes the server with whatever it finds.
SessionInit ==
  /\ status = "loading"
  /\ token \in Bearers
  /\ session = "none"
  /\ verifying = token
  /\ notice = ""
  /\ requests = [i \in Slots |-> Idle]
  /\ accepts \in Policies
  /\ rotations = 0
  /\ failures = 0

(***************************************************************************)
(* Verification                                                            *)
(***************************************************************************)
\* The form is shown only while there is no session and no verification; a blank
\* token is not submitted.
Login(t) ==
  /\ status = "unauthenticated"
  /\ status' = "loading"
  /\ session' = "none"
  /\ verifying' = t
  /\ notice' = ""
  /\ UNCHANGED <<token, requests, accepts, rotations, failures>>

Verified ==
  /\ verifying \in accepts
  /\ token' = verifying
  /\ session' = verifying
  /\ verifying' = "none"
  /\ status' = "authenticated"
  /\ notice' = ""
  /\ UNCHANGED <<requests, accepts, rotations, failures>>

\* Rejected, or the server could not be reached: the stored token is dropped in
\* both cases, and the anonymous probe leaves no notice.
VerificationFails ==
  /\ verifying /= "none"
  /\ token' = ""
  /\ session' = "none"
  /\ verifying' = "none"
  /\ status' = "unauthenticated"
  /\ notice' \in {IF verifying = "" THEN "" ELSE reason :
                    reason \in {"unreachable"}
                      \cup (IF verifying \in accepts THEN {} ELSE {"rejected"})}
  /\ UNCHANGED <<requests, accepts, rotations, failures>>

(***************************************************************************)
(* Requests of the screens                                                 *)
(***************************************************************************)
Send(i) ==
  /\ status = "authenticated"
  /\ requests[i] = Idle
  /\ requests' = [requests EXCEPT ![i] =
                    [kind |-> IF i \in Feeds THEN "read" ELSE "download",
                     token |-> token, phase |-> "sent"]]
  /\ UNCHANGED <<status, token, session, verifying, notice, accepts, rotations,
                 failures>>

\* The headers are in; an error response still has a body to be read.
Headers(i) ==
  /\ requests[i] /= Idle /\ requests[i].phase = "sent"
  /\ \/ /\ requests' = [requests EXCEPT ![i].phase =
                          IF requests[i].token \in accepts THEN "ok"
                                                          ELSE "unauthorized"]
        /\ UNCHANGED failures
     \/ /\ failures < MaxFailures
        /\ failures' = failures + 1
        /\ requests' = [requests EXCEPT ![i].phase = "failed"]
  /\ UNCHANGED <<status, token, session, verifying, notice, accepts, rotations>>

(* Mutant: screens that do not abort what they were reading. *)
ShellRequestsStay(rs) == rs

\* Leaving the authenticated state unmounts every screen, whose cleanups abort
\* what they were reading. An error body that is being read at that moment ends
\* in the same esf:unauthorized event before anyone can use the form.
ShellRequestsEnd(rs) ==
  [i \in Slots |-> IF rs[i].kind = "read" THEN Idle ELSE rs[i]]

(* Mutant: nobody listens to esf:unauthorized. *)
UnauthorizedUnheard(rs) ==
  /\ requests' = rs
  /\ UNCHANGED <<token, status, session, notice, verifying>>

\* esf:unauthorized
Unauthorized(rs) ==
  /\ token' = ""
  /\ status' = "unauthenticated"
  /\ session' = "none"
  /\ notice' = "expired"
  /\ requests' = ShellRequestsEnd(rs)
  /\ UNCHANGED verifying

\* The promise of a request settles. request() announces a 401, requestBlob()
\* leaves it to the caller, which shows a toast.
Settle(i) ==
  /\ requests[i] /= Idle /\ requests[i].phase /= "sent"
  /\ LET rest == [requests EXCEPT ![i] = Idle]
     IN IF requests[i].kind = "read" /\ requests[i].phase = "unauthorized"
          THEN Unauthorized(rest)
          ELSE /\ requests' = rest
               /\ UNCHANGED <<token, status, session, notice, verifying>>
  /\ UNCHANGED <<accepts, rotations, failures>>

(***************************************************************************)
(* The server's token is replaced                                          *)
(***************************************************************************)
Rotate ==
  /\ rotations < MaxRotations
  /\ accepts' \in Policies \ {accepts}
  /\ rotations' = rotations + 1
  /\ UNCHANGED <<status, token, session, verifying, notice, requests, failures>>

SessionNext ==
  \/ \E t \in Tokens : Login(t)
  \/ Verified
  \/ VerificationFails
  \/ \E i \in Slots : Send(i) \/ Headers(i) \/ Settle(i)
  \/ Rotate

-----------------------------------------------------------------------------
\* Nobody sees a screen without a token the server has accepted, and whatever a
\* screen is reading carries the token of this session, not of an earlier one.
SessionIsVerified ==
  status = "authenticated" =>
    /\ session = token /\ verifying = "none"
    /\ \A i \in Feeds : requests[i] = Idle \/ requests[i].token = token

\* A session is ended only by a rejection of its own token, never by a late
\* answer to a request that an earlier session of the tab sent.
EndsByItsOwnToken ==
  [][status = "authenticated" /\ status' = "unauthenticated"
       => \E i \in Slots : /\ requests[i].phase = "unauthorized"
                           /\ requests[i].token = token]_sessionVars

\* Every rejected request ends the session that sent it.
RejectionEndsSession ==
  [][\A i \in Slots :
       requests[i].phase = "unauthorized" /\ requests'[i] = Idle
         /\ requests[i].token = token
       => status' /= "authenticated"]_sessionVars
=============================================================================
