-------------------------- MODULE RegistryRequestProofs ------------------------
(***************************************************************************)
(* The safety properties of RegistryRequest, for every set of .npmrc files,*)
(* hosts and paths, every size cap and every pair of time limits.          *)
(***************************************************************************)
EXTENDS RegistryRequest, FiniteSetTheorems, WellFoundedInduction, TLAPS

-------------------------------------------------------------------------------
(* Numbers *)

\* The library states well-foundedness of an operator; this is the set the next lemma needs.
LEMMA LessIsWellFounded == IsWellFoundedOn({ss \in Nat \X Nat : ss[1] < ss[2]}, Nat)
<1>1. OpToRel(<, Nat) = {ss \in Nat \X Nat : ss[1] < ss[2]}
  BY DEF OpToRel
<1> QED
  BY <1>1, NatLessThanWellFounded

\* A set of natural numbers that is not empty has a least element.
LEMMA LeastNumber ==
  ASSUME NEW T \in SUBSET Nat, T # {}
  PROVE  \E x \in T : \A y \in T : x <= y
<1> DEFINE R == {ss \in Nat \X Nat : ss[1] < ss[2]}
<1>1. PICK x \in T : \A y \in T : ~(<<y, x>> \in R)
  <2> HIDE DEF R
  <2>1. IsWellFoundedOn(R, Nat)
    BY LessIsWellFounded DEF R
  <2> QED
    BY <2>1, WFMin
<1>2. ASSUME NEW y \in T PROVE x <= y
  <2>1. SUFFICES ASSUME y < x PROVE FALSE
    OBVIOUS
  <2>2. <<y, x>> \in Nat \X Nat /\ <<y, x>>[1] < <<y, x>>[2]
    BY <2>1
  <2>3. <<y, x>> \in R
    BY <2>2, Zenon
  <2> QED
    BY <2>3, <1>1
<1> QED
  BY <1>2

\* One of numbers up to a bound that is not empty has a greatest element.
LEMMA GreatestNumber ==
  ASSUME NEW n \in Nat, NEW T \in SUBSET (0..n), T # {}
  PROVE  \E x \in T : \A y \in T : y <= x
<1> DEFINE D == {d \in Nat : n - d \in T}
<1>1. PICK t : t \in T
  OBVIOUS
<1>2. n - t \in D
  BY <1>1
<1>3. PICK d \in D : \A e \in D : d <= e
  BY <1>2, LeastNumber
<1>4. ASSUME NEW y \in T PROVE y <= n - d
  <2>1. n - y \in D
    OBVIOUS
  <2> QED
    BY <2>1, <1>3
<1> QED
  BY <1>3, <1>4

-------------------------------------------------------------------------------

States == {"none", "connecting", "waiting", "body", "draining", "ended", "destroyed"}
Outcomes == {"pending", "json", "null", "rejected"}

\* The promises that can still change have a request at work for them.
Working == {"connecting", "waiting", "body"}
Followed == conn[2] # "none"
Last == IF Followed THEN 2 ELSE 1

TypeOK ==
  /\ npmrc \in Npmrcs
  /\ url \in [Hops -> Url \cup {NoUrl}]
  /\ auth = [h \in Hops |-> auth[h]]
  /\ conn \in [Hops -> States]
  /\ status \in [Hops -> Nat]
  /\ bytes \in [Hops -> Nat]
  /\ age \in [Hops -> 0..Deadline]
  /\ quiet \in [Hops -> Nat]
  /\ promise \in [Hops -> Outcomes]
  /\ elapsed \in Nat

\* The second request is made by the redirect that answers the first.
HopsInOrder ==
  /\ conn[1] # "none"
  /\ Followed => conn[1] \in {"draining", "ended", "destroyed"}
  /\ ~Followed => status[2] = 0 /\ bytes[2] = 0 /\ age[2] = 0 /\ promise[2] = "pending"

\* What a connection says of its response.
Responses ==
  \A h \in Hops :
    /\ conn[h] \in {"connecting", "waiting"} => status[h] = 0 /\ bytes[h] = 0
    /\ conn[h] = "body" => status[h] = 200 /\ bytes[h] <= MaxBytes

\* What an answer says of the last request.
Whole == status[Last] = 200 /\ conn[Last] = "ended" /\ bytes[Last] <= MaxBytes

Answers ==
  /\ promise[1] = "json" => Whole
  /\ promise[1] = "null" => status[Last] = 404 \/ Whole

\* A call that is pending has its last request at work, within its deadline.
Pending ==
  promise[1] = "pending" =>
    /\ conn[Last] \in Working
    /\ elapsed <= IF Followed THEN Deadline + age[2] ELSE age[1]

\* Where the requests went and with what.
Scoped ==
  \A h \in Hops : conn[h] # "none" =>
    /\ url[h] \in Url /\ url[h].host = url[1].host
    /\ auth[h] = AuthFor(npmrc, url[h])

IInv == TypeOK /\ HopsInOrder /\ Responses /\ Answers /\ Pending /\ Scoped

-------------------------------------------------------------------------------
(* Operators *)

\* A call has two requests at most.
LEMMA TwoHops == Hops = {1, 2} /\ Cardinality(Hops) = 2
<1>1. Hops = 1..2 /\ Hops = {1, 2}
  BY DEF Hops, Redirects
<1>2. IsFiniteSet({1}) /\ Cardinality({1}) = 1
  BY FS_Singleton
<1>3. Cardinality({1} \cup {2}) = 2
  BY <1>2, FS_AddElement
<1>4. {1, 2} = {1} \cup {2}
  OBVIOUS
<1> QED
  BY <1>1, <1>3, <1>4

\* A field that is set was set by an entry that no later one overrides.
LEMMA FieldIsGranted ==
  ASSUME npmrc \in Npmrcs, NEW dart, NEW f \in Fields, FieldsOf(npmrc, dart)[f] # None
  PROVE  \E i \in DOMAIN npmrc : \E j \in DOMAIN npmrc[i] :
           /\ npmrc[i][j].dart = dart /\ ~Overridden(i, j)
           /\ npmrc[i][j].value = FieldsOf(npmrc, dart)[f]
<1> DEFINE last == Deciding(npmrc, dart, f)
<1>1. last # {}
  BY DEF FieldsOf
<1>2. PICK p \in last : FieldsOf(npmrc, dart)[f] = npmrc[p[1]][p[2]].value
  <2>1. (CHOOSE p \in last : TRUE) \in last
    BY <1>1
  <2> QED
    BY <1>1, <2>1 DEF FieldsOf
<1>3. PICK i \in DOMAIN npmrc : \E j \in DOMAIN npmrc[i] :
        p = <<i, j>> /\ npmrc[i][j].dart = dart /\ npmrc[i][j].field = f
  <2> USE DEF Deciding
  <2> QED
    BY <1>2
<1>4. PICK j \in DOMAIN npmrc[i] : p = <<i, j>> /\ npmrc[i][j].dart = dart /\ npmrc[i][j].field = f
  BY <1>3
<1>5. ASSUME NEW k \in DOMAIN npmrc, NEW l \in DOMAIN npmrc[k],
             npmrc[k][l].dart = dart, npmrc[k][l].field = f
      PROVE  ~(k > i \/ (k = i /\ l > j))
  <2>1. k < i \/ (k = i /\ l <= j)
    <3> DEFINE set == UNION {{<<a, b>> : b \in {b \in DOMAIN npmrc[a] :
                        npmrc[a][b].dart = dart /\ npmrc[a][b].field = f}} : a \in DOMAIN npmrc}
    <3>1. last = {q \in set : \A r \in set : r[1] < q[1] \/ (r[1] = q[1] /\ r[2] <= q[2])}
      BY DEF Deciding
    <3>2. <<k, l>> \in set
      BY <1>5
    <3> HIDE DEF set, last
    <3>3. p \in last
      BY <1>2
    <3> QED
      BY <1>4, <3>1, <3>2, <3>3
  <2>2. k \in Nat /\ i \in Nat /\ l \in Nat /\ j \in Nat
    BY RequestAssumption
  <2> QED
    BY <2>1, <2>2
<1>6. ~Overridden(i, j)
  BY <1>4, <1>5 DEF Overridden
<1> QED
  BY <1>2, <1>4, <1>6

\* A field that an entry grants is set, to the value of that entry.
LEMMA GrantedIsSet ==
  ASSUME npmrc \in Npmrcs, NEW i \in DOMAIN npmrc, NEW j \in DOMAIN npmrc[i],
         npmrc[i][j].field \in Fields, ~Overridden(i, j)
  PROVE  FieldsOf(npmrc, npmrc[i][j].dart)[npmrc[i][j].field] = npmrc[i][j].value
<1> DEFINE dart == npmrc[i][j].dart
           f == npmrc[i][j].field
           last == Deciding(npmrc, dart, f)
<1>1. <<i, j>> \in last
  <2>1. ASSUME NEW k \in DOMAIN npmrc, NEW l \in DOMAIN npmrc[k],
               npmrc[k][l].dart = dart, npmrc[k][l].field = f
        PROVE  k < i \/ (k = i /\ l <= j)
    <3>1. ~(k > i \/ (k = i /\ l > j))
      BY <2>1 DEF Overridden
    <3>2. k \in Nat /\ i \in Nat /\ l \in Nat /\ j \in Nat
      BY RequestAssumption
    <3> QED
      BY <3>1, <3>2
  <2> QED
    BY <2>1 DEF Deciding
<1>2. ASSUME NEW p \in last PROVE p = <<i, j>>
  <2>1. PICK k \in DOMAIN npmrc : \E l \in DOMAIN npmrc[k] : p = <<k, l>>
    BY <1>2 DEF Deciding
  <2>2. PICK l \in DOMAIN npmrc[k] : p = <<k, l>>
    BY <2>1
  <2>3. k \in Nat /\ i \in Nat /\ l \in Nat /\ j \in Nat
    BY RequestAssumption
  <2>4. k < i \/ (k = i /\ l <= j)
    BY <1>1, <1>2, <2>2 DEF Deciding
  <2>5. i < k \/ (i = k /\ j <= l)
    BY <1>1, <1>2, <2>2 DEF Deciding
  <2> QED
    BY <2>2, <2>3, <2>4, <2>5
<1>3. (CHOOSE p \in last : TRUE) = <<i, j>>
  <2>1. (CHOOSE p \in last : TRUE) \in last
    BY <1>1
  <2> QED
    BY <1>2, <2>1
<1>4. FieldsOf(npmrc, dart)[f] = IF last = {} THEN None
        ELSE LET p == CHOOSE p \in last : TRUE IN npmrc[p[1]][p[2]].value
  BY DEF FieldsOf
<1> DEFINE first == CHOOSE p \in last : TRUE
<1>5. FieldsOf(npmrc, dart)[f] = npmrc[first[1]][first[2]].value
  BY <1>1, <1>4
<1>6. first[1] = i /\ first[2] = j
  <2>1. first = <<i, j>>
    BY <1>3
  <2> HIDE DEF first
  <2> QED
    BY <2>1
<1> HIDE DEF first
<1> QED
  BY <1>5, <1>6

\* A header carries the value of a field that is set.
LEMMA HeaderIsField ==
  ASSUME NEW layers, NEW dart, HeaderFor(FieldsOf(layers, dart)) # <<>>
  PROVE  \E f \in Fields : /\ FieldsOf(layers, dart)[f] # None
                           /\ HeaderFor(FieldsOf(layers, dart))[2] = FieldsOf(layers, dart)[f]
<1> DEFINE fields == FieldsOf(layers, dart)
<1>1. HeaderFor(fields) =
        IF fields["_authtoken"] # None THEN <<"Bearer", fields["_authtoken"]>>
        ELSE IF fields["_auth"] # None THEN <<"Basic", fields["_auth"]>>
        ELSE IF fields["username"] # None /\ fields["_password"] # None
             THEN <<"Basic", fields["username"], fields["_password"]>> ELSE <<>>
  <2> HIDE DEF fields
  <2>1. CASE fields["_authtoken"] # None
    BY <2>1 DEF HeaderFor
  <2>2. CASE fields["_authtoken"] = None /\ fields["_auth"] # None
    BY <2>2 DEF HeaderFor
  <2>3. CASE fields["_authtoken"] = None /\ fields["_auth"] = None
    BY <2>3 DEF HeaderFor
  <2> QED
    BY <2>1, <2>2, <2>3
<1> HIDE DEF fields
<1>2. \E f \in Fields : fields[f] # None /\ HeaderFor(fields)[2] = fields[f]
  <2>1. HeaderFor(fields) # <<>>
    BY DEF fields
  <2> QED
    BY <1>1, <2>1 DEF Fields
<1> QED
  BY <1>2 DEF fields

\* A dart with a token gives a header.
LEMMA TokenGivesHeader ==
  ASSUME NEW fields, fields["_authtoken"] # None PROVE HeaderFor(fields) # <<>>
  BY DEF HeaderFor

\* What a URL is sent with was granted to a prefix of it, the longest that has a
\* token among them, and only over TLS.
LEMMA AuthIsGranted ==
  ASSUME npmrc \in Npmrcs, NEW u, Len(u.path) \in Nat, AuthFor(npmrc, u) # <<>>
  PROVE  /\ u.secure
         /\ \E n \in 0..Len(u.path) :
              /\ \E i \in DOMAIN npmrc : \E j \in DOMAIN npmrc[i] :
                   Grants(i, j, u, n) /\ npmrc[i][j].value = AuthFor(npmrc, u)[2]
              /\ \A m \in (n + 1)..Len(u.path) :
                   \A i \in DOMAIN npmrc : \A j \in DOMAIN npmrc[i] :
                     Grants(i, j, u, m) => npmrc[i][j].field # "_authtoken"
<1> DEFINE header == [n \in 0..Len(u.path) |-> HeaderFor(FieldsOf(npmrc, Dart(u, n)))]
           some == {n \in DOMAIN header : header[n] # <<>>}
           longest == CHOOSE n \in some : \A m \in some : m <= n
<1>1. u.secure /\ some # {} /\ AuthFor(npmrc, u) = header[longest]
  BY DEF AuthFor
<1>2. longest \in some /\ \A m \in some : m <= longest
  <2>1. some \in SUBSET (0..Len(u.path))
    OBVIOUS
  <2>2. \E n \in some : \A m \in some : m <= n
    <3> HIDE DEF some
    <3> QED
      BY <1>1, <2>1, GreatestNumber
  <2> HIDE DEF some
  <2> QED
    BY <2>2
<1> HIDE DEF longest
<1>3. longest \in 0..Len(u.path) /\ HeaderFor(FieldsOf(npmrc, Dart(u, longest))) # <<>>
      /\ AuthFor(npmrc, u) = HeaderFor(FieldsOf(npmrc, Dart(u, longest)))
  BY <1>1, <1>2
<1>4. PICK f \in Fields : /\ FieldsOf(npmrc, Dart(u, longest))[f] # None
                          /\ AuthFor(npmrc, u)[2] = FieldsOf(npmrc, Dart(u, longest))[f]
  BY <1>3, HeaderIsField
<1>5. \E i \in DOMAIN npmrc : \E j \in DOMAIN npmrc[i] :
        /\ npmrc[i][j].dart = Dart(u, longest) /\ ~Overridden(i, j)
        /\ npmrc[i][j].value = FieldsOf(npmrc, Dart(u, longest))[f]
  BY <1>4, FieldIsGranted
<1>6. \E i \in DOMAIN npmrc : \E j \in DOMAIN npmrc[i] :
        Grants(i, j, u, longest) /\ npmrc[i][j].value = AuthFor(npmrc, u)[2]
  BY <1>4, <1>5 DEF Grants
<1>7. ASSUME NEW m \in (longest + 1)..Len(u.path), NEW i \in DOMAIN npmrc,
             NEW j \in DOMAIN npmrc[i], Grants(i, j, u, m), npmrc[i][j].field = "_authtoken"
      PROVE  FALSE
  <2>1. FieldsOf(npmrc, Dart(u, m))["_authtoken"] # None
    <3>1. "_authtoken" \in Fields
      BY DEF Fields
    <3> QED
      BY <1>7, <3>1, GrantedIsSet DEF Grants
  <2>2. HeaderFor(FieldsOf(npmrc, Dart(u, m))) # <<>>
    BY <2>1, TokenGivesHeader
  <2>3. longest \in Nat /\ m \in 0..Len(u.path) /\ m > longest
    BY <1>3, <1>7
  <2>4. m \in some
    BY <2>2, <2>3
  <2> HIDE DEF some
  <2> QED
    BY <1>2, <2>3, <2>4
<1> QED
  BY <1>1, <1>3, <1>6, <1>7

-------------------------------------------------------------------------------
(* The invariant *)

\* The first request is made with the call.
LEMMA IInvInit == Init => IInv
<1> SUFFICES ASSUME Init PROVE IInv
  OBVIOUS
<1>1. Hops = {1, 2} /\ Deadline \in Nat \ {0} /\ MaxBytes \in Nat
  BY TwoHops, RequestAssumption
<1>2. PICK u \in Url : /\ url = [h \in Hops |-> IF h = 1 THEN u ELSE NoUrl]
                       /\ auth = [h \in Hops |-> IF h = 1 THEN AuthFor(npmrc, u) ELSE <<>>]
  BY DEF Init
<1>3. conn[1] = "connecting" /\ conn[2] = "none" /\ ~Followed /\ Last = 1
  BY <1>1 DEF Init, Followed, Last
<1>4. TypeOK
  BY <1>1, <1>2 DEF Init, TypeOK, States, Outcomes
<1>5. HopsInOrder /\ Responses /\ Answers
  BY <1>1, <1>3 DEF Init, HopsInOrder, Responses, Answers, Whole
<1>6. Pending
  BY <1>1, <1>3 DEF Init, Pending, Working
<1>7. Scoped
  BY <1>1, <1>2, <1>3 DEF Init, Scoped
<1> QED
  BY <1>4, <1>5, <1>6, <1>7 DEF IInv

\* The URLs and headers of the requests stay with them.
LEMMA ScopedKept ==
  ASSUME IInv, UNCHANGED <<npmrc, url, auth>>,
         \A h \in Hops : conn[h] = "none" => conn'[h] = "none"
  PROVE  Scoped'
BY DEF IInv, Scoped

\* Settling a request with its connection closed: no request works on, or none did.
LEMMA DestroyStep ==
  ASSUME IInv, NEW h \in Hops, h \in Open, Destroy(h), bytes' \in [Hops -> Nat],
         \A g \in Hops : g # h => bytes'[g] = bytes[g],
         UNCHANGED <<npmrc, url, auth, status, age, elapsed>>, quiet' \in [Hops -> Nat]
  PROVE  IInv'
<1>1. Hops = {1, 2} /\ Deadline \in Nat \ {0} /\ MaxBytes \in Nat
  BY TwoHops, RequestAssumption
<1> USE DEF IInv
<1>2. conn' = [conn EXCEPT ![h] = "destroyed"] /\ conn[h] \notin Closed
  BY DEF Destroy, At, Open
<1>3. conn'[h] = "destroyed" /\ \A g \in Hops : g # h => conn'[g] = conn[g]
  BY <1>2 DEF TypeOK
<1>4. promise' = [g \in Hops |-> IF g <= h /\ promise[g] = "pending" THEN "rejected" ELSE promise[g]]
  BY DEF Destroy, Settle
<1>5. TypeOK'
  BY <1>1, <1>2, <1>4 DEF TypeOK, States, Outcomes
<1>6. Followed' = Followed /\ Last' = Last
  BY <1>1, <1>3, <1>2 DEF Followed, Last, Closed
<1>7. HopsInOrder'
  BY <1>1, <1>2, <1>3, <1>4, <1>6 DEF HopsInOrder, Closed, Followed
<1>8. Responses'
  BY <1>1, <1>3 DEF Responses
<1>9. promise'[1] = IF promise[1] = "pending" THEN "rejected" ELSE promise[1]
  BY <1>1, <1>4
<1>10. Answers'
  BY <1>1, <1>2, <1>3, <1>6, <1>9 DEF Answers, Whole, Closed, Last
<1>11. Pending'
  BY <1>9 DEF Pending
<1>12. Scoped'
  BY <1>2, <1>3, ScopedKept DEF Closed
<1> QED
  BY <1>5, <1>7, <1>8, <1>10, <1>11, <1>12

\* A connection that works, or is drained, goes on.
LEMMA ConnectStep == ASSUME IInv, NEW h \in Hops, Connect(h) PROVE IInv'
<1>1. Hops = {1, 2} /\ Deadline \in Nat \ {0} /\ MaxBytes \in Nat
  BY TwoHops, RequestAssumption
<1> USE DEF IInv
<1>2. /\ conn' = [conn EXCEPT ![h] = "waiting"] /\ conn[h] = "connecting"
      /\ quiet' = [quiet EXCEPT ![h] = 0]
      /\ UNCHANGED <<npmrc, url, auth, status, bytes, age, promise, elapsed>>
  BY DEF Connect, At, Active
<1>3. conn'[h] = "waiting" /\ \A g \in Hops : g # h => conn'[g] = conn[g]
  BY <1>2 DEF TypeOK
<1>4. TypeOK'
  BY <1>1, <1>2 DEF TypeOK, States
<1>5. Followed' = Followed /\ Last' = Last
  BY <1>1, <1>3, <1>2 DEF Followed, Last
<1>6. HopsInOrder' /\ Responses'
  BY <1>1, <1>2, <1>3, <1>5 DEF HopsInOrder, Responses, Followed
<1>7. Answers' /\ Pending'
  BY <1>1, <1>2, <1>3, <1>5 DEF Answers, Whole, Pending, Working, Last
<1>8. Scoped'
  BY <1>2, <1>3, ScopedKept
<1> QED
  BY <1>4, <1>6, <1>7, <1>8

\* A response that is not followed.
LEMMA RespondStep ==
  ASSUME IInv, NEW h \in Hops, NEW code \in {200, 404, 500}, Respond(h, code) PROVE IInv'
<1>1. Hops = {1, 2} /\ Deadline \in Nat \ {0} /\ MaxBytes \in Nat
  BY TwoHops, RequestAssumption
<1> USE DEF IInv
<1>2. /\ conn[h] = "waiting" /\ status' = [status EXCEPT ![h] = code]
      /\ quiet' = [quiet EXCEPT ![h] = 0]
      /\ UNCHANGED <<npmrc, url, auth, bytes, age, elapsed>>
  BY DEF Respond, Active
<1> DEFINE to == IF code = 200 THEN "body" ELSE "draining"
           outcome == IF code = 404 THEN "null" ELSE "rejected"
<1>3. /\ conn' = [conn EXCEPT ![h] = to]
      /\ promise' = IF code = 200 THEN promise
                    ELSE [g \in Hops |-> IF g <= h /\ promise[g] = "pending" THEN outcome
                                         ELSE promise[g]]
  BY DEF Respond, At, Settle
<1>4. conn'[h] = to /\ \A g \in Hops : g # h => conn'[g] = conn[g]
  BY <1>3 DEF TypeOK
<1>5. status'[h] = code /\ \A g \in Hops : g # h => status'[g] = status[g]
  BY <1>2 DEF TypeOK
<1>6. TypeOK'
  BY <1>1, <1>2, <1>3 DEF TypeOK, States, Outcomes
<1>7. Followed' = Followed /\ Last' = Last /\ (conn[Last] = "waiting" => h = Last)
  BY <1>1, <1>4, <1>2 DEF Followed, Last, HopsInOrder
<1>8. h = Last
  BY <1>1, <1>2 DEF HopsInOrder, Followed, Last
<1>9. HopsInOrder'
  BY <1>1, <1>2, <1>3, <1>4, <1>5, <1>7 DEF HopsInOrder, Followed
<1>10. \A g \in Hops : bytes[g] \in Nat /\ (conn[g] = "waiting" => bytes[g] = 0)
  BY DEF TypeOK, Responses
<1>11. Responses'
  BY <1>1, <1>2, <1>4, <1>5, <1>10 DEF Responses
<1>12. promise'[1] = IF code # 200 /\ promise[1] = "pending" THEN outcome ELSE promise[1]
  BY <1>1, <1>3
<1>13. Answers'
  BY <1>1, <1>2, <1>4, <1>5, <1>7, <1>8, <1>12 DEF Answers, Whole, Responses
<1>14. Pending'
  BY <1>1, <1>2, <1>4, <1>7, <1>8, <1>12 DEF Pending, Working
<1>15. Scoped'
  BY <1>2, <1>4, ScopedKept
<1> QED
  BY <1>6, <1>9, <1>11, <1>13, <1>14, <1>15

\* A redirect: the next request is made with what its own URL is granted, or the
\* call is rejected.
LEMMA RedirectStep ==
  ASSUME IInv, NEW h \in Hops, NEW target \in Url, Redirect(h, target) PROVE IInv'
<1>1. Hops = {1, 2} /\ Deadline \in Nat \ {0} /\ MaxBytes \in Nat
  BY TwoHops, RequestAssumption
<1> USE DEF IInv
<1>2. /\ conn[h] = "waiting" /\ status' = [status EXCEPT ![h] = 302]
      /\ quiet' = [quiet EXCEPT ![h] = 0]
      /\ UNCHANGED <<npmrc, bytes, age, elapsed>>
  BY DEF Redirect, Active
<1>3. h = Last
  BY <1>1, <1>2 DEF HopsInOrder, Followed, Last
<1>4. status'[h] = 302 /\ \A g \in Hops : g # h => status'[g] = status[g]
  BY <1>2 DEF TypeOK
<1>5. CASE Follows(h, target)
  <2>1. h = 1 /\ target.host = url[1].host
    BY <1>1, <1>5 DEF Follows, Redirects
  <2>2. /\ conn' = [conn EXCEPT ![1] = "draining", ![2] = "connecting"]
        /\ url' = [url EXCEPT ![2] = target]
        /\ auth' = [auth EXCEPT ![2] = AuthFor(npmrc, target)]
        /\ UNCHANGED promise
    BY <1>5, <2>1 DEF Redirect, Header
  <2>3. /\ conn'[1] = "draining" /\ conn'[2] = "connecting"
        /\ url'[1] = url[1] /\ url'[2] = target
        /\ auth'[1] = auth[1] /\ auth'[2] = AuthFor(npmrc, target)
    BY <1>1, <2>2 DEF TypeOK
  <2>4. ~Followed /\ Followed' /\ Last = 1 /\ Last' = 2
    BY <1>3, <2>1, <2>3 DEF Followed, Last
  <2>5. TypeOK'
    BY <1>1, <1>2, <2>2 DEF TypeOK, States
  <2>6. HopsInOrder' /\ Responses'
    BY <1>1, <1>2, <1>4, <2>1, <2>2, <2>3, <2>4 DEF HopsInOrder, Responses
  <2>7. promise[1] \notin {"json", "null"}
    BY <1>1, <1>2, <2>1, <2>4 DEF Answers, Whole, Responses
  <2>8. Answers'
    BY <2>2, <2>7 DEF Answers, Whole
  <2>9. Pending'
    <3>1. promise[1] = "pending" => elapsed <= Deadline
      BY <1>1, <2>4 DEF Pending, TypeOK
    <3>2. age'[2] = 0
      BY <1>2, <2>4 DEF HopsInOrder
    <3> QED
      BY <1>1, <1>2, <2>2, <2>3, <2>4, <3>1, <3>2 DEF Pending, Working
  <2>10. Scoped'
    BY <1>1, <1>2, <2>1, <2>3 DEF Scoped, HopsInOrder
  <2> QED
    BY <2>5, <2>6, <2>8, <2>9, <2>10
<1>6. CASE ~Follows(h, target)
  <2>1. /\ conn' = [conn EXCEPT ![h] = "draining"] /\ UNCHANGED <<url, auth>>
        /\ promise' = [g \in Hops |-> IF g <= h /\ promise[g] = "pending" THEN "rejected"
                                      ELSE promise[g]]
    BY <1>6 DEF Redirect, At, Settle
  <2>2. conn'[h] = "draining" /\ \A g \in Hops : g # h => conn'[g] = conn[g]
    BY <2>1 DEF TypeOK
  <2>3. Followed' = Followed /\ Last' = Last
    BY <1>1, <1>2, <2>2 DEF Followed, Last
  <2>4. TypeOK'
    BY <1>1, <1>2, <2>1 DEF TypeOK, States, Outcomes
  <2>5. HopsInOrder' /\ Responses'
    BY <1>1, <1>2, <1>4, <2>1, <2>2, <2>3 DEF HopsInOrder, Responses, Followed
  <2>6. promise'[1] = IF promise[1] = "pending" THEN "rejected" ELSE promise[1]
    BY <1>1, <2>1
  <2>7. promise[1] \notin {"json", "null"}
    BY <1>1, <1>2, <1>3 DEF Answers, Whole, Responses
  <2>8. Answers' /\ Pending'
    BY <2>6, <2>7 DEF Answers, Whole, Pending
  <2>9. Scoped'
    BY <1>2, <2>1, <2>2, ScopedKept
  <2> QED
    BY <2>4, <2>5, <2>8, <2>9
<1> QED
  BY <1>5, <1>6

\* A chunk is counted, dropped, or the one too many.
LEMMA ChunkStep == ASSUME IInv, NEW h \in Hops, Chunk(h) PROVE IInv'
<1>1. Hops = {1, 2} /\ Deadline \in Nat \ {0} /\ MaxBytes \in Nat
  BY TwoHops, RequestAssumption
<1> USE DEF IInv
<1>2. /\ conn[h] \in {"body", "draining"} /\ quiet' = [quiet EXCEPT ![h] = 0]
      /\ UNCHANGED <<npmrc, url, auth, status, age, elapsed>>
  BY DEF Chunk, Active
<1>3. CASE conn[h] = "body" /\ Oversize(h)
  <2>1. bytes' = [bytes EXCEPT ![h] = @ + 1] /\ Destroy(h)
    BY <1>3 DEF Chunk
  <2>2. bytes' \in [Hops -> Nat] /\ \A g \in Hops : g # h => bytes'[g] = bytes[g]
    BY <2>1 DEF TypeOK
  <2>3. h \in Open
    BY <1>3 DEF Open, Closed
  <2>4. quiet' \in [Hops -> Nat]
    BY <1>2 DEF TypeOK
  <2> QED
    BY <1>2, <2>1, <2>2, <2>3, <2>4, DestroyStep
<1>4. CASE conn[h] = "body" /\ ~Oversize(h)
  <2>1. bytes' = [bytes EXCEPT ![h] = @ + 1] /\ UNCHANGED <<conn, promise>>
    BY <1>4 DEF Chunk
  <2>2. bytes'[h] = bytes[h] + 1 /\ \A g \in Hops : g # h => bytes'[g] = bytes[g]
    BY <2>1 DEF TypeOK
  <2>3. bytes[h] \in Nat /\ bytes[h] + 1 <= MaxBytes
    BY <1>1, <1>4 DEF Oversize, TypeOK
  <2>4. TypeOK'
    BY <1>2, <2>1, <2>3 DEF TypeOK
  <2>5. HopsInOrder' /\ Responses'
    BY <1>1, <1>2, <1>4, <2>1, <2>2, <2>3 DEF HopsInOrder, Responses, Followed
  <2>6. Answers' /\ Pending'
    BY <1>1, <1>2, <1>4, <2>1, <2>2 DEF Answers, Whole, Pending, Last, Followed
  <2>7. Scoped'
    BY <1>2, <2>1, ScopedKept
  <2> QED
    BY <2>4, <2>5, <2>6, <2>7
<1>5. CASE conn[h] = "draining"
  <2>1. UNCHANGED <<bytes, conn, promise>>
    BY <1>5 DEF Chunk
  <2>2. TypeOK'
    BY <1>2, <2>1 DEF TypeOK
  <2>3. HopsInOrder' /\ Responses' /\ Answers' /\ Pending'
    BY <1>2, <2>1 DEF HopsInOrder, Responses, Answers, Whole, Pending, Last, Followed
  <2>4. Scoped'
    BY <1>2, <2>1, ScopedKept
  <2> QED
    BY <2>2, <2>3, <2>4
<1> QED
  BY <1>2, <1>3, <1>4, <1>5

\* The end of a response answers the call if it was collected.
LEMMA EndStep ==
  ASSUME IInv, NEW h \in Hops, NEW parsed \in Parses, End(h, parsed) PROVE IInv'
<1>1. Hops = {1, 2} /\ Deadline \in Nat \ {0} /\ MaxBytes \in Nat
  BY TwoHops, RequestAssumption
<1> USE DEF IInv
<1>2. /\ conn[h] \in {"body", "draining"} /\ conn' = [conn EXCEPT ![h] = "ended"]
      /\ UNCHANGED <<npmrc, url, auth, status, bytes, age, quiet, elapsed>>
  BY DEF End, At
<1> DEFINE outcome == parsed
<1>3. promise' = IF conn[h] = "body"
                 THEN [g \in Hops |-> IF g <= h /\ promise[g] = "pending" THEN outcome
                                      ELSE promise[g]]
                 ELSE promise
  BY DEF End, Settle
<1>4. conn'[h] = "ended" /\ \A g \in Hops : g # h => conn'[g] = conn[g]
  BY <1>2 DEF TypeOK
<1>5. Followed' = Followed /\ Last' = Last
  BY <1>1, <1>2, <1>4 DEF Followed, Last
<1>6. conn[h] = "body" => h = Last
  BY <1>1 DEF HopsInOrder, Followed, Last
<1>7. TypeOK'
  BY <1>1, <1>2, <1>3 DEF TypeOK, States, Outcomes, Parses
<1>8. HopsInOrder' /\ Responses'
  BY <1>1, <1>2, <1>3, <1>4, <1>5, <1>6 DEF HopsInOrder, Responses, Followed, Last
<1>9. promise'[1] = IF conn[h] = "body" /\ promise[1] = "pending" THEN outcome ELSE promise[1]
  BY <1>1, <1>3
<1>10. Answers'
  BY <1>1, <1>2, <1>4, <1>5, <1>6, <1>9 DEF Answers, Whole, Responses, Last
<1>11. Pending'
  BY <1>1, <1>2, <1>4, <1>5, <1>6, <1>9 DEF Parses, Pending, Working, Last
<1>12. Scoped'
  BY <1>2, <1>4, ScopedKept
<1> QED
  BY <1>7, <1>8, <1>10, <1>11, <1>12

\* Time: it passes only while no open request is at its deadline.
LEMMA TickStep == IInv /\ Tick => IInv'
<1> SUFFICES ASSUME IInv, Tick PROVE IInv'
  OBVIOUS
<1>1. Hops = {1, 2} /\ Deadline \in Nat \ {0} /\ Idle \in Nat
  BY TwoHops, RequestAssumption
<1> USE DEF IInv
<1>2. /\ elapsed' = IF elapsed <= 3 * Deadline THEN elapsed + 1 ELSE elapsed
      /\ UNCHANGED <<npmrc, url, auth, conn, status, bytes, promise>>
  BY DEF Tick
<1>3. /\ age' = [h \in Hops |-> IF h \in Open /\ age[h] < Deadline THEN age[h] + 1 ELSE age[h]]
      /\ quiet' = [h \in Hops |-> IF h \in Open /\ quiet[h] < Idle THEN quiet[h] + 1 ELSE quiet[h]]
  BY DEF Tick, Older
<1>4. \A h \in Open : age[h] < Deadline
  BY <1>1 DEF Tick, DeadlineDue, TypeOK, Open
<1>5. Followed' = Followed /\ Last' = Last /\ Last \in Hops
  BY <1>1, <1>2 DEF Followed, Last
<1>6. TypeOK'
  BY <1>1, <1>2, <1>3 DEF TypeOK
<1>7. HopsInOrder' /\ Responses' /\ Answers'
  BY <1>1, <1>2, <1>3, <1>5 DEF HopsInOrder, Responses, Answers, Whole, Open, Closed, Followed
<1>8. Pending'
  <2> SUFFICES ASSUME promise[1] = "pending" PROVE Pending'
    BY <1>2 DEF Pending
  <2>1. Last \in Open /\ conn[Last] \in Working
    BY <1>5 DEF Pending, Working, Open, Closed
  <2>2. age'[Last] = age[Last] + 1
    BY <1>3, <1>4, <1>5, <2>1
  <2> QED
    BY <1>1, <1>2, <1>5, <2>1, <2>2 DEF Pending, Last, TypeOK
<1>9. Scoped'
  BY <1>2, ScopedKept
<1> QED
  BY <1>6, <1>7, <1>8, <1>9

\* Every step keeps the invariant.
LEMMA IInvNext == IInv /\ [Next]_vars => IInv'
<1> SUFFICES ASSUME IInv, [Next]_vars PROVE IInv'
  OBVIOUS
<1>1. CASE Tick
  BY <1>1, TickStep
<1>2. ASSUME NEW h \in Hops, Connect(h) \/ Chunk(h) PROVE IInv'
  BY <1>2, ConnectStep, ChunkStep
<1>3. ASSUME NEW h \in Hops, Break(h) \/ Timeout(h) PROVE IInv'
  <2>1. h \in Open /\ Destroy(h) /\ UNCHANGED <<npmrc, url, auth, status, bytes, age, quiet, elapsed>>
    BY <1>3 DEF Break, Timeout, IdleDue, DeadlineDue, Open, Closed
  <2>2. bytes' \in [Hops -> Nat] /\ quiet' \in [Hops -> Nat]
    BY <2>1 DEF IInv, TypeOK
  <2> QED
    BY <2>1, <2>2, DestroyStep
<1>4. ASSUME NEW h \in Hops, NEW code \in {200, 404, 500}, Respond(h, code) PROVE IInv'
  BY <1>4, RespondStep
<1>5. ASSUME NEW h \in Hops, NEW target \in Url, Redirect(h, target) PROVE IInv'
  BY <1>5, RedirectStep
<1>6. ASSUME NEW h \in Hops, NEW parsed \in Parses, End(h, parsed) PROVE IInv'
  BY <1>6, EndStep
<1>7. CASE UNCHANGED vars
  <2>1. UNCHANGED <<npmrc, url, auth, conn, status, bytes, age, quiet, promise, elapsed>>
    BY <1>7 DEF vars
  <2> QED
    BY <2>1 DEF IInv, TypeOK, HopsInOrder, Responses, Answers, Whole, Pending, Scoped, Last, Followed
<1> QED
  BY <1>1, <1>2, <1>3, <1>4, <1>5, <1>6, <1>7 DEF Next

\* IInv holds in every reachable state.
THEOREM Invariance == Spec => []IInv
<1> QED
  BY IInvInit, IInvNext, PTL DEF Spec

-------------------------------------------------------------------------------
(* The properties *)

\* The variables keep their types: in particular, no clock of a request passes its
\* deadline.
THEOREM TypeCorrect == Spec => []TypeOK
<1>1. IInv => TypeOK
  BY DEF IInv
<1> QED
  BY Invariance, <1>1, PTL

\* A document is what the last request received in full and within the cap, null is
\* its 404 or such a body holding only that literal, whatever timeouts, resets and redirects there were.
THEOREM AnsweredByLastHolds == Spec => []AnsweredByLast
<1>1. ASSUME IInv PROVE AnsweredByLast
  <2> DEFINE made == {h \in Hops : conn[h] # "none"}
             last == CHOOSE h \in made : \A g \in made : g <= h
  <2>1. made = IF Followed THEN {1, 2} ELSE {1}
    BY <1>1, TwoHops DEF IInv, HopsInOrder, Followed
  <2>2. last = Last
    BY <2>1 DEF Last
  <2> QED
    BY <1>1, <2>2 DEF AnsweredByLast, IInv, Answers, Whole
<1> QED
  BY Invariance, <1>1, PTL

\* Every request goes to the host of the call, and carries only what .npmrc grants a
\* prefix of its own URL, over TLS.
THEOREM CredentialInScopeHolds == Spec => []CredentialInScope
<1>1. ASSUME IInv PROVE CredentialInScope
  <2>1. ASSUME NEW h \in Hops, conn[h] # "none"
        PROVE  /\ url[h].host = url[1].host /\ auth[h] = AuthFor(npmrc, url[h])
               /\ Len(url[h].path) \in Nat /\ npmrc \in Npmrcs
    BY <1>1, <2>1, RequestAssumption DEF IInv, TypeOK, Scoped, Url
  <2>2. ASSUME NEW h \in Hops, conn[h] # "none", auth[h] # <<>>
        PROVE  /\ url[h].secure
               /\ \E n \in 0..Len(url[h].path) :
                    /\ \E i \in DOMAIN npmrc : \E j \in DOMAIN npmrc[i] :
                         Grants(i, j, url[h], n) /\ npmrc[i][j].value = auth[h][2]
                    /\ \A m \in (n + 1)..Len(url[h].path) :
                         \A i \in DOMAIN npmrc : \A j \in DOMAIN npmrc[i] :
                           Grants(i, j, url[h], m) => npmrc[i][j].field # "_authtoken"
    <3>1. auth[h] = AuthFor(npmrc, url[h]) /\ Len(url[h].path) \in Nat /\ npmrc \in Npmrcs
      BY <2>1, <2>2
    <3>2. AuthFor(npmrc, url[h]) # <<>>
      BY <2>2, <3>1
    <3> QED
      BY <3>1, <3>2, AuthIsGranted
  <2> QED
    BY <2>1, <2>2 DEF CredentialInScope
<1> QED
  BY Invariance, <1>1, PTL

\* Whatever the registry sends, and however slowly, the call is settled when the
\* deadlines of its requests have passed one after the other.
THEOREM SettledInTimeHolds == Spec => []SettledInTime
<1>1. ASSUME IInv PROVE SettledInTime
  BY <1>1, TwoHops, RequestAssumption DEF IInv, SettledInTime, Pending, TypeOK
<1> QED
  BY Invariance, <1>1, PTL
===============================================================================
