---------------------------- MODULE RegistryRequest ----------------------------
(***************************************************************************)
(* getJson and postJson of src/src/integrity.js: one call, the request it  *)
(* makes, and the request a redirect makes it follow with.                 *)
(*                                                                         *)
(* A hop is one HTTP request with its promise.  The promise of the second  *)
(* hop settles that of the first, so settling a hop settles every pending  *)
(* promise below it.  What the registry and the network do is external:    *)
(* connect, respond, send chunks, end, break.  Time passes in ticks; both  *)
(* timers of a request fire before time passes them.                       *)
(*                                                                         *)
(* Abstractions.  Every chunk is one unit of length.  The credentials are  *)
(* those of RegistryAuth.  A destroyed request emits its errors before     *)
(* anything else can happen to it.                                         *)
(***************************************************************************)
EXTENDS RegistryAuth, FiniteSets

CONSTANTS
  Npmrcs,    \* sequences of .npmrc layers the project may have
  Hosts, Paths,
  MaxBytes,  \* maxBytes
  Idle,      \* timeoutMs
  Deadline   \* deadlineMs

ASSUME RequestAssumption ==
  /\ MaxBytes \in Nat /\ Idle \in Nat \ {0} /\ Deadline \in Nat \ {0} /\ Idle < Deadline
  /\ Paths \subseteq Seq(STRING)
  /\ \A layers \in Npmrcs : /\ DOMAIN layers \subseteq Nat
                            /\ \A i \in DOMAIN layers : DOMAIN layers[i] \subseteq Nat

Redirects == 1            \* redirectsLeft of every caller
Hops == 1..(Redirects + 1)
Url == [host : Hosts, secure : BOOLEAN, path : Paths]

VARIABLES
  npmrc,    \* the layers
  url,      \* of each hop
  auth,     \* the Authorization header it was sent with
  conn,     \* the connection of the hop
  status,   \* of the response the hop got, 0 before it
  bytes,    \* bytes of the body received
  age,      \* ticks since the request was made
  quiet,    \* ticks since the socket was last active
  promise,  \* of each hop
  elapsed   \* ticks since the call

vars == <<npmrc, url, auth, conn, status, bytes, age, quiet, promise, elapsed>>

Closed == {"none", "ended", "destroyed"}
Open == {h \in Hops : conn[h] \notin Closed}
NoUrl == [host |-> None, secure |-> FALSE, path |-> <<>>]

\* Mutant: the header of the first request is sent on.
HeaderKept(u) == auth[1]
\* authFor(url), "resolved per URL, so a followed redirect re-asks".
Header(u) == AuthFor(npmrc, u)

\* The call with url u: its first request.
Init ==
  /\ npmrc \in Npmrcs
  /\ \E u \in Url :
       /\ url = [h \in Hops |-> IF h = 1 THEN u ELSE NoUrl]
       /\ auth = [h \in Hops |-> IF h = 1 THEN AuthFor(npmrc, u) ELSE <<>>]
  /\ conn = [h \in Hops |-> IF h = 1 THEN "connecting" ELSE "none"]
  /\ status = [h \in Hops |-> 0]
  /\ bytes = [h \in Hops |-> 0]
  /\ age = [h \in Hops |-> 0]
  /\ quiet = [h \in Hops |-> 0]
  /\ promise = [h \in Hops |-> "pending"]
  /\ elapsed = 0

-------------------------------------------------------------------------------
(* Settling *)

\* onceSettlers, and .then(settle.resolve, settle.reject) of a followed redirect.
Settle(h, o) ==
  promise' = [g \in Hops |-> IF g <= h /\ promise[g] = "pending" THEN o ELSE promise[g]]

At(h, c) == conn' = [conn EXCEPT ![h] = c]
Active(h) == quiet' = [quiet EXCEPT ![h] = 0]

\* Mutant: an error is answered with null, like a 404.
DestroyNull(h) == At(h, "destroyed") /\ Settle(h, "null")
\* req.destroy(error): the request's 'error' rejects.
Destroy(h) == At(h, "destroyed") /\ Settle(h, "rejected")

-------------------------------------------------------------------------------
(* Responses *)

Connect(h) ==
  /\ conn[h] = "connecting"
  /\ At(h, "waiting") /\ Active(h)
  /\ UNCHANGED <<npmrc, url, auth, status, bytes, age, promise, elapsed>>

\* handleRegistryResponse of a response that is not a redirect it follows: 200 is
\* collected, 404 resolves null, any other status rejects; the latter are drained.
Respond(h, code) ==
  /\ conn[h] = "waiting"
  /\ Active(h)
  /\ status' = [status EXCEPT ![h] = code]
  /\ CASE code = 200 -> At(h, "body") /\ UNCHANGED promise
       [] code = 404 -> At(h, "draining") /\ Settle(h, "null")
       [] OTHER -> At(h, "draining") /\ Settle(h, "rejected")
  /\ UNCHANGED <<npmrc, url, auth, bytes, age, elapsed>>

\* Mutant: a redirect is followed wherever it leads.
FollowsAnywhere(h, target) == h <= Redirects
\* redirectsLeft > 0, and the target has the host of the request.
Follows(h, target) == h <= Redirects /\ target.host = url[h].host

\* handleRedirect: a redirect to another host, or beyond the budget, rejects; the
\* response is drained either way.
Redirect(h, target) ==
  /\ conn[h] = "waiting"
  /\ IF Follows(h, target)
     THEN /\ conn' = [conn EXCEPT ![h] = "draining", ![h + 1] = "connecting"]
          /\ url' = [url EXCEPT ![h + 1] = target]
          /\ auth' = [auth EXCEPT ![h + 1] = Header(target)]
          /\ UNCHANGED promise
     ELSE /\ At(h, "draining") /\ Settle(h, "rejected")
          /\ UNCHANGED <<url, auth>>
  /\ Active(h)
  /\ status' = [status EXCEPT ![h] = 302]
  /\ UNCHANGED <<npmrc, bytes, age, elapsed>>

\* collectJsonBody: the body with this chunk exceeds the cap.
Oversize(h) == bytes[h] + 1 > MaxBytes

\* A chunk of the body: counted if it is collected, dropped if it is drained.
Chunk(h) ==
  /\ conn[h] \in {"body", "draining"}
  /\ Active(h)
  /\ IF conn[h] = "body"
     THEN /\ bytes' = [bytes EXCEPT ![h] = @ + 1]
          /\ IF Oversize(h) THEN Destroy(h) ELSE UNCHANGED <<conn, promise>>
     ELSE UNCHANGED <<bytes, conn, promise>>
  /\ UNCHANGED <<npmrc, url, auth, status, age, elapsed>>

\* What JSON.parse makes of a body: a document, null (the body is that literal, and
\* the caller cannot tell it from a 404), or a syntax error.
Parses == {"json", "null", "rejected"}

\* The end of the response: a collected body settles with what it parses to, and an
\* empty one is a syntax error.
End(h, parsed) ==
  /\ conn[h] \in {"body", "draining"}
  /\ At(h, "ended")
  /\ conn[h] = "body" /\ bytes[h] = 0 => parsed = "rejected"
  /\ IF conn[h] = "body" THEN Settle(h, parsed) ELSE UNCHANGED promise
  /\ UNCHANGED <<npmrc, url, auth, status, bytes, age, quiet, elapsed>>

\* The connection is refused, reset, or closed in the middle of the response.
Break(h) ==
  /\ h \in Open
  /\ Destroy(h)
  /\ UNCHANGED <<npmrc, url, auth, status, bytes, age, quiet, elapsed>>

-------------------------------------------------------------------------------
(* Time *)

\* The idle timer runs once the socket is connected.
IdleDue(h) == conn[h] \in {"waiting", "body", "draining"} /\ quiet[h] >= Idle
\* Mutant: the deadline is cleared when the response arrives.
DeadlineDueUntilResponse(h) == conn[h] \in {"connecting", "waiting"} /\ age[h] >= Deadline
\* The deadline runs until the request is closed.
DeadlineDue(h) == h \in Open /\ age[h] >= Deadline

Timeout(h) ==
  /\ IdleDue(h) \/ DeadlineDue(h)
  /\ Destroy(h)
  /\ UNCHANGED <<npmrc, url, auth, status, bytes, age, quiet, elapsed>>

Older(clock, bound) ==
  [h \in Hops |-> IF h \in Open /\ clock[h] < bound THEN clock[h] + 1 ELSE clock[h]]

Tick ==
  /\ Open # {}
  /\ \A h \in Hops : ~IdleDue(h) /\ ~DeadlineDue(h)
  /\ age' = Older(age, Deadline)
  /\ quiet' = Older(quiet, Idle)
  /\ elapsed' = IF elapsed <= 3 * Deadline THEN elapsed + 1 ELSE elapsed
  /\ UNCHANGED <<npmrc, url, auth, conn, status, bytes, promise>>

Next ==
  \/ Tick
  \/ \E h \in Hops :
       \/ Connect(h) \/ Chunk(h) \/ Break(h) \/ Timeout(h)
       \/ \E code \in {200, 404, 500} : Respond(h, code)
       \/ \E target \in Url : Redirect(h, target)
       \/ \E parsed \in Parses : End(h, parsed)

\* Time passes and timers fire; nothing obliges the registry to do anything.
Fairness == WF_vars(Tick) /\ \A h \in Hops : WF_vars(Timeout(h))

Spec == Init /\ [][Next]_vars /\ Fairness

-------------------------------------------------------------------------------
(* Properties *)

\* A call is answered with a document only if the last request it made received
\* all of it within the size cap, and with null ("no such package") only if that
\* request got a 404, or a whole body within the cap that is the literal null: a
\* timeout, a reset, another status or a cut body is never an answer.
AnsweredByLast ==
  LET made == {h \in Hops : conn[h] # "none"}
      last == CHOOSE h \in made : \A g \in made : g <= h
      whole == status[last] = 200 /\ conn[last] = "ended" /\ bytes[last] <= MaxBytes
  IN /\ promise[1] = "json" => whole
     /\ promise[1] = "null" => status[last] = 404 \/ whole

\* An entry of .npmrc that a later one for the same field of the same scope overrides.
Overridden(i, j) ==
  \E k \in DOMAIN npmrc : \E l \in DOMAIN npmrc[k] :
    /\ npmrc[k][l].dart = npmrc[i][j].dart /\ npmrc[k][l].field = npmrc[i][j].field
    /\ k > i \/ (k = i /\ l > j)

\* An entry that grants something to the prefix of length n of a URL's path.
Grants(i, j, u, n) ==
  npmrc[i][j].dart = Dart(u, n) /\ npmrc[i][j].value # None /\ ~Overridden(i, j)

\* Every request of the call goes to the host it was given, and carries a
\* credential only over TLS and only one that .npmrc, its later layers overriding the
\* earlier, grants to a prefix of that very URL while it grants no token to a longer
\* one, whatever the redirect led through.
CredentialInScope ==
  \A h \in Hops : conn[h] # "none" =>
    /\ url[h].host = url[1].host
    /\ auth[h] # <<>> =>
         /\ url[h].secure
         /\ \E n \in 0..Len(url[h].path) :
              /\ \E i \in DOMAIN npmrc : \E j \in DOMAIN npmrc[i] :
                   Grants(i, j, url[h], n) /\ npmrc[i][j].value = auth[h][2]
              /\ \A m \in (n + 1)..Len(url[h].path) :
                   \A i \in DOMAIN npmrc : \A j \in DOMAIN npmrc[i] :
                     Grants(i, j, url[h], m) => npmrc[i][j].field # "_authtoken"

\* "a slow trickle cannot hang the run": the call is settled by the time its
\* requests' deadlines have passed one after the other.
SettledInTime == elapsed > Cardinality(Hops) * Deadline => promise[1] # "pending"

\* Whatever the call was settled by, no socket it opened stays open, the response
\* of a redirect or of an error included.
SocketsReleased == <>[](Open = {})
===============================================================================
