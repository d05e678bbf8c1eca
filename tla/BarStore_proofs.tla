--------------------------- MODULE BarStore_proofs --------------------------
(***************************************************************************)
(* Proofs about BarStore, for any number of requests, rows, codes and      *)
(* keys.  Safe is inductive.  What RetryCreatesNothing needs in it: a key  *)
(* that has been answered is remembered or has met a fault, so a request   *)
(* that was owed an answer passes the middleware only after a fault.       *)
(* What ConflictsAreExplained needs: of the codes a request has checked,   *)
(* every row is deleted or was written since the request began.            *)
(***************************************************************************)
EXTENDS BarStore, TLAPS

\* What a request carries at each of its steps.
Carries(p) ==
  /\ pc[p] \in {"lookup", "check", "insert"} => req[p].kind = "create"
  /\ pc[p] \in {"find", "checkOther", "load", "save"} =>
       /\ req[p].kind \in {"update", "delete"}
       /\ req[p].id \in Ids
       /\ req[p].key = None
       /\ req[p].kind = "update" => req[p].batch # {}
  /\ pc[p] = "save" => req[p].old \in Codes
  /\ pc[p] = "store" /\ Success(req[p].status) => req[p].key \in created
  /\ pc[p] = "lookup" /\ req[p].owed => req[p].key \in answered

Remembered == \A k \in answered : storage => cache[k] # None \/ k \in faulty

\* A request that is owed an answer and executes all the same.
OwedMetFault ==
  \A p \in Requests : storage /\ pc[p] \in {"check", "insert"} /\ req[p].owed
                        => req[p].key \in faulty

Safe == /\ TypeOK
        /\ \A p \in Requests : Carries(p)
        /\ CodesAreUnique
        /\ ReplayIsTrue
        /\ Remembered
        /\ OwedMetFault

\* Responding ends the request or leaves it to the middleware.
LEMMA RespondTyped ==
  ASSUME TypeOK, NEW p \in Requests, NEW status \in Statuses, Respond(p, status),
         pc[p] # "idle"
  PROVE  /\ pc' \in [Requests -> PC] /\ req' \in [Requests -> RequestRecord]
         /\ \A q \in Requests \ {p} : pc'[q] = pc[q] /\ req'[q] = req[q]
         /\ \/ pc'[p] = "idle" /\ req'[p] = Blank
            \/ /\ pc'[p] = "store" /\ storage /\ req[p].key # None
               /\ req'[p].key = req[p].key /\ req'[p].status = status
<1>1. Blank \in RequestRecord
  BY SMT DEF Blank, Asks, RequestRecord
<1>2. [req[p] EXCEPT !.status = status] \in RequestRecord
  <2>1. req[p] \in RequestRecord
    BY DEF TypeOK
  <2>2. \A r \in RequestRecord : [r EXCEPT !.status = status] \in RequestRecord
    BY SMTT(30) DEF RequestRecord
  <2> QED BY <2>1, <2>2
<1>3. CASE req[p].key # None /\ storage
  <2>1. /\ pc' = [pc EXCEPT ![p] = "store"]
        /\ req' = [req EXCEPT ![p] = [req[p] EXCEPT !.status = status]]
    BY <1>3 DEF Respond
  <2>2. [req[p] EXCEPT !.status = status].key = req[p].key
    BY SMT DEF TypeOK, RequestRecord
  <2>3. [req[p] EXCEPT !.status = status].status = status
    BY SMT DEF TypeOK, RequestRecord
  <2> QED BY <1>2, <1>3, <2>1, <2>2, <2>3, SMT DEF TypeOK, PC
<1>4. CASE ~(req[p].key # None /\ storage)
  BY <1>1, <1>4, SMT DEF TypeOK, Respond, PC
<1> QED BY <1>3, <1>4

\* In the initial state nothing is stored and nobody is at work.
LEMMA InitSafe == Init => Safe
<1> SUFFICES ASSUME Init PROVE Safe
  OBVIOUS
<1>1. TypeOK
  BY BarAssumption, SMT DEF Init, TypeOK, NoRow, Blank, Asks, RequestRecord, PC
<1>2. \A p \in Requests : Carries(p)
  BY DEF Init, Carries
<1> QED
  BY <1>1, <1>2 DEF Init, Safe, CodesAreUnique, ReplayIsTrue, Remembered, OwedMetFault,
     Exists, NoRow

\* A request arrives with the record r and goes to its first step.
LEMMA BeginSafe ==
  ASSUME Safe, NEW p \in Requests, NEW r \in RequestRecord,
         NEW to \in {"lookup", "check", "find"}, Begin(p, r, to),
         to = "lookup" => storage /\ r.key # None /\ (r.owed => r.key \in answered),
         to \in {"lookup", "check"} => r.kind = "create",
         to = "check" => ~(storage /\ r.owed),
         to = "find" => /\ r.kind \in {"update", "delete"} /\ r.id \in Ids /\ r.key = None
                        /\ r.kind = "update" => r.batch # {}
  PROVE  Safe'
<1> USE DEF Safe, Begin, Goto, table
<1>1. TypeOK'
  BY SMT DEF TypeOK, PC
<1>2. \A q \in Requests : Carries(q)'
  BY SMT DEF TypeOK, Carries, Success
<1>3. OwedMetFault'
  BY SMT DEF TypeOK, OwedMetFault
<1> QED
  BY <1>1, <1>2, <1>3 DEF CodesAreUnique, Exists, ReplayIsTrue, Remembered

\* The four kinds of requests.
LEMMA ArrivalSafe ==
  ASSUME Safe, NEW p \in Requests,
         \/ \E k \in Keys : PostWithKey(p, k)
         \/ \E c \in Codes : Post(p, c)
         \/ \E codes \in (SUBSET Codes) \ {{}} : BulkCreate(p, codes)
         \/ \E i \in Ids : Remove(p, i) \/ \E c \in Codes, e \in BOOLEAN : Put(p, i, c, e)
  PROVE  Safe'
<1> USE BarAssumption
<1>1. ASSUME NEW k \in Keys, PostWithKey(p, k) PROVE Safe'
  <2> DEFINE r == Asks("create", k, None, {BodyOf[k]}, TRUE, k \in answered)
             to == IF storage THEN "lookup" ELSE "check"
  <2>1. /\ r \in RequestRecord /\ r.kind = "create" /\ r.key = k
        /\ r.owed = (k \in answered)
    BY SMT DEF Asks, RequestRecord
  <2>2. to \in {"lookup", "check"} /\ (to = "lookup" => storage) /\ (to = "check" => ~storage)
    OBVIOUS
  <2>3. Begin(p, r, to)
    BY <1>1 DEF PostWithKey
  <2> HIDE DEF r, to
  <2> QED BY <2>1, <2>2, <2>3, BeginSafe
<1>2. ASSUME NEW codes \in (SUBSET Codes) \ {{}},
             Begin(p, Asks("create", None, None, codes, TRUE, FALSE), "check")
      PROVE  Safe'
  <2> DEFINE r == Asks("create", None, None, codes, TRUE, FALSE)
  <2>1. r \in RequestRecord /\ r.kind = "create" /\ r.owed = FALSE
    BY SMT DEF Asks, RequestRecord
  <2>2. Begin(p, r, "check")
    BY <1>2
  <2> HIDE DEF r
  <2> QED BY <2>1, <2>2, BeginSafe
<1>3. ASSUME NEW i \in Ids, Remove(p, i) PROVE Safe'
  <2> DEFINE r == Asks("delete", None, i, {}, TRUE, FALSE)
  <2>1. r \in RequestRecord /\ r.kind = "delete" /\ r.id = i /\ r.key = None
    BY SMT DEF Asks, RequestRecord
  <2>2. Begin(p, r, "find")
    BY <1>3 DEF Remove
  <2> HIDE DEF r
  <2> QED BY <2>1, <2>2, BeginSafe
<1>4. ASSUME NEW i \in Ids, NEW c \in Codes, NEW e \in BOOLEAN, Put(p, i, c, e) PROVE Safe'
  <2> DEFINE r == Asks("update", None, i, {c}, e, FALSE)
  <2>1. /\ r \in RequestRecord /\ r.kind = "update" /\ r.id = i /\ r.key = None
        /\ r.batch = {c}
    BY SMT DEF Asks, RequestRecord
  <2>2. Begin(p, r, "find")
    BY <1>4 DEF Put
  <2> HIDE DEF r
  <2> QED BY <2>1, <2>2, BeginSafe
<1>5. ASSUME NEW c \in Codes, Post(p, c) PROVE Safe'
  <2>1. {c} \in (SUBSET Codes) \ {{}}
    OBVIOUS
  <2> QED BY <1>2, <1>5, <2>1 DEF Post
<1>6. ASSUME NEW codes \in (SUBSET Codes) \ {{}}, BulkCreate(p, codes) PROVE Safe'
  BY <1>2, <1>6 DEF BulkCreate
<1> QED BY <1>1, <1>3, <1>4, <1>5, <1>6

\* The middleware before the handler: a replay, a miss, a storage that fails.
\* A key that was answered is missed only after a fault.
LEMMA LookupSafe ==
  ASSUME Safe, NEW p \in Requests, Replay(p) \/ PassOn(p) \/ LookupFails(p)
  PROVE  Safe'
<1> USE DEF Safe, table, history, Goto
<1>0. pc[p] = "lookup" /\ storage /\ req[p].key \in Keys /\ Carries(p)
  BY SMT DEF TypeOK, Replay, PassOn, LookupFails, RequestRecord
<1>1. CASE Replay(p)
  <2>1. Blank \in RequestRecord
    BY SMT DEF Blank, Asks, RequestRecord
  <2>2. TypeOK'
    BY <1>0, <1>1, <2>1, SMT DEF TypeOK, Replay, PC
  <2>3. \A q \in Requests : Carries(q)'
    BY <1>1, SMT DEF TypeOK, Replay, Carries
  <2>4. OwedMetFault'
    BY <1>1, SMT DEF TypeOK, Replay, OwedMetFault
  <2> QED
    BY <1>1, <2>2, <2>3, <2>4 DEF Replay, CodesAreUnique, Exists, ReplayIsTrue, Remembered
<1>2. CASE PassOn(p)
  <2>1. TypeOK'
    BY <1>2, SMT DEF TypeOK, PassOn, PC
  <2>2. \A q \in Requests : Carries(q)'
    BY <1>2, SMT DEF TypeOK, PassOn, Carries
  <2>3. OwedMetFault'
    BY <1>0, <1>2, SMT DEF TypeOK, PassOn, OwedMetFault, Remembered, Carries
  <2> QED
    BY <1>2, <2>1, <2>2, <2>3 DEF PassOn, CodesAreUnique, Exists, ReplayIsTrue, Remembered
<1>3. CASE LookupFails(p)
  <2>1. TypeOK'
    BY <1>0, <1>3, SMT DEF TypeOK, LookupFails, PC
  <2>2. \A q \in Requests : Carries(q)'
    BY <1>3, SMT DEF TypeOK, LookupFails, Carries
  <2>3. OwedMetFault'
    BY <1>3, SMT DEF TypeOK, LookupFails, OwedMetFault
  <2> QED
    BY <1>3, <2>1, <2>2, <2>3 DEF LookupFails, CodesAreUnique, Exists, ReplayIsTrue, Remembered
<1> QED BY <1>1, <1>2, <1>3

\* The middleware after the handler: a success is remembered, or the key has
\* met a fault.
LEMMA FinishSafe ==
  ASSUME Safe, NEW p \in Requests, NEW set \in BOOLEAN, Finish(p, set)
  PROVE  Safe'
<1> USE DEF Safe, table, Finish, Goto
<1>1. /\ pc[p] = "store" /\ req[p].key \in Keys /\ req[p].status \in Statuses \cup {None}
      /\ Success(req[p].status) => req[p].key \in created /\ req[p].status \in Statuses
  BY SMT DEF TypeOK, RequestRecord, Carries, Success, Statuses
<1>2. Blank \in RequestRecord
  BY SMT DEF Blank, Asks, RequestRecord
<1>3. TypeOK'
  BY <1>1, <1>2, SMT DEF TypeOK, PC
<1>4. \A q \in Requests : Carries(q)'
  BY SMT DEF TypeOK, Carries
<1>5. OwedMetFault'
  BY SMT DEF TypeOK, OwedMetFault
<1>6. ReplayIsTrue'
  BY <1>1, SMT DEF TypeOK, ReplayIsTrue
<1>7. Remembered'
  <2>1. Success(req[p].status) => req[p].status # None
    BY <1>1, BarAssumption
  <2> QED BY <1>1, <2>1, SMT DEF TypeOK, Remembered
<1> QED BY <1>3, <1>4, <1>5, <1>6, <1>7 DEF CodesAreUnique, Exists

\* An entry that expires is a fault of its key; a crash leaves what is stored.
LEMMA ExpireOrCrashSafe ==
  ASSUME Safe, (\E k \in Keys : Expire(k)) \/ Crash
  PROVE  Safe'
<1> USE DEF Safe, table, history
<1>1. ASSUME NEW k \in Keys, Expire(k) PROVE Safe'
  <2>1. TypeOK'
    BY <1>1, SMT DEF TypeOK, Expire
  <2>2. ReplayIsTrue' /\ Remembered'
    BY <1>1, SMT DEF TypeOK, Expire, ReplayIsTrue, Remembered
  <2> QED
    BY <1>1, <2>1, <2>2 DEF Expire, CodesAreUnique, Exists, Carries, OwedMetFault
<1>2. CASE Crash
  <2>1. Blank \in RequestRecord
    BY SMT DEF Blank, Asks, RequestRecord
  <2>2. TypeOK'
    BY <1>2, <2>1, SMT DEF TypeOK, Crash, PC
  <2>3. \A q \in Requests : pc'[q] = "idle"
    BY <1>2 DEF Crash
  <2> QED
    BY <1>2, <2>2, <2>3, SMT DEF Crash, Carries, OwedMetFault, CodesAreUnique, Exists,
       ReplayIsTrue, Remembered
<1> QED BY <1>1, <1>2

\* A request that reads, or that is refused, changes no row.
LEMMA ReadSafe ==
  ASSUME Safe, NEW p \in Requests,
         \/ \E c \in Codes : CheckCode(p, c)
         \/ InsertFails(p) \/ NotFound(p) \/ Find(p) \/ CheckOther(p) \/ Load(p)
         \/ SaveFails(p) \/ StatementFails(p)
  PROVE  Safe'
<1> USE DEF Safe, table, history, Goto
<1>1. ASSUME NEW status \in Statuses \ {"created", "ok"}, Respond(p, status), pc[p] # "idle",
             UNCHANGED <<table, cache, history>>
      PROVE  Safe'
  <2>1. /\ pc' \in [Requests -> PC] /\ req' \in [Requests -> RequestRecord]
        /\ \A q \in Requests \ {p} : pc'[q] = pc[q] /\ req'[q] = req[q]
        /\ \/ pc'[p] = "idle" /\ req'[p] = Blank
           \/ /\ pc'[p] = "store" /\ storage /\ req[p].key # None
              /\ req'[p].key = req[p].key /\ req'[p].status = status
    BY <1>1, RespondTyped
  <2>2. TypeOK'
    BY <1>1, <2>1 DEF TypeOK
  <2>3. ASSUME NEW q \in Requests PROVE Carries(q)'
    BY <1>1, <2>1, SMT DEF Carries, Success
  <2>4. OwedMetFault'
    BY <1>1, <2>1 DEF OwedMetFault
  <2> QED
    BY <1>1, <2>2, <2>3, <2>4 DEF CodesAreUnique, Exists, ReplayIsTrue, Remembered
<1>2. ASSUME NEW to \in {"load", "checkOther"}, pc[p] \in {"find", "checkOther"},
             pc' = [pc EXCEPT ![p] = to], UNCHANGED <<table, cache, req, history>>
      PROVE  Safe'
  <2>1. TypeOK'
    BY <1>2, SMT DEF TypeOK, PC
  <2>2. \A q \in Requests : Carries(q)'
    BY <1>2, SMT DEF TypeOK, Carries
  <2>3. OwedMetFault'
    BY <1>2, SMT DEF TypeOK, OwedMetFault
  <2> QED
    BY <1>2, <2>1, <2>2, <2>3 DEF CodesAreUnique, Exists, ReplayIsTrue, Remembered
<1>3. ASSUME NEW c \in Codes, CheckCode(p, c) PROVE Safe'
  <2>1. CASE ExistsByCode(c)
    BY <1>1, <1>3, <2>1 DEF CheckCode, Statuses
  <2>2. CASE ~ExistsByCode(c)
    <3> DEFINE r == [req[p] EXCEPT !.left = @ \ {c}]
    <3>1. /\ r \in RequestRecord /\ r.kind = req[p].kind /\ r.key = req[p].key
          /\ r.owed = req[p].owed
      BY SMT DEF TypeOK, RequestRecord
    <3>2. /\ req' = [req EXCEPT ![p] = r] /\ UNCHANGED <<table, cache, history>>
          /\ pc[p] = "check"
      BY <1>3, <2>2 DEF CheckCode
    <3>3. pc' = pc \/ pc' = [pc EXCEPT ![p] = "insert"]
      BY <1>3, <2>2 DEF CheckCode
    <3> HIDE DEF r
    <3>4. TypeOK'
      BY <3>1, <3>2, <3>3, SMT DEF TypeOK, PC
    <3>5. \A q \in Requests : Carries(q)'
      BY <3>1, <3>2, <3>3, SMT DEF TypeOK, Carries
    <3>6. OwedMetFault'
      BY <3>1, <3>2, <3>3, SMT DEF TypeOK, OwedMetFault
    <3> QED
      BY <3>2, <3>4, <3>5, <3>6 DEF CodesAreUnique, Exists, ReplayIsTrue, Remembered
  <2> QED BY <2>1, <2>2
<1>4. CASE InsertFails(p)
  BY <1>1, <1>4 DEF InsertFails, Statuses
<1>5. CASE NotFound(p)
  BY <1>1, <1>5 DEF NotFound, Statuses
<1>6. CASE Find(p)
  BY <1>2, <1>6 DEF Find
<1>7. CASE CheckOther(p)
  BY <1>1, <1>2, <1>7 DEF CheckOther, Statuses
<1>8. CASE Load(p)
  <2> DEFINE r == [req[p] EXCEPT !.old = rows[req[p].id].code]
  <2>1. req[p].id \in Ids /\ rows[req[p].id].code \in Codes /\ pc[p] = "load"
    BY <1>8, SMT DEF TypeOK, Carries, Load, Live, Exists
  <2>2. /\ r \in RequestRecord /\ r.kind = req[p].kind /\ r.key = req[p].key
        /\ r.id = req[p].id /\ r.batch = req[p].batch /\ r.old \in Codes
    BY <2>1, SMT DEF TypeOK, RequestRecord
  <2>3. /\ req' = [req EXCEPT ![p] = r] /\ UNCHANGED <<table, cache, history>>
        /\ pc' = [pc EXCEPT ![p] = "save"]
    BY <1>8 DEF Load
  <2> HIDE DEF r
  <2>4. TypeOK'
    BY <2>2, <2>3, SMT DEF TypeOK, PC
  <2>5. \A q \in Requests : Carries(q)'
    BY <2>1, <2>2, <2>3, SMT DEF TypeOK, Carries
  <2>6. OwedMetFault'
    BY <2>1, <2>3, SMT DEF TypeOK, OwedMetFault
  <2> QED
    BY <2>3, <2>4, <2>5, <2>6 DEF CodesAreUnique, Exists, ReplayIsTrue, Remembered
<1>9. CASE SaveFails(p)
  BY <1>1, <1>9 DEF SaveFails, Statuses
<1>10. CASE StatementFails(p)
  BY <1>1, <1>10 DEF StatementFails, Statuses
<1> QED BY <1>3, <1>4, <1>5, <1>6, <1>7, <1>8, <1>9, <1>10

\* A statement that writes the rows in changed leaves the table well formed
\* and its codes unique, when the codes it writes are new or were there.
LEMMA WriteKeepsCodesUnique ==
  ASSUME TypeOK, CodesAreUnique, NEW changed \in SUBSET Ids,
         NEW new \in [changed -> [code : Codes, deleted : BOOLEAN]], Write(changed, new),
         \A i, j \in changed : new[i].code = new[j].code => i = j,
         \A i \in changed : HoldersOf(new[i].code) \subseteq changed
  PROVE  /\ rows' \in [Ids -> [code : Codes \cup {None}, deleted : BOOLEAN]]
         /\ touched' \in [Requests -> SUBSET Ids]
         /\ CodesAreUnique'
<1>1. \A i \in changed : new[i] \in [code : Codes \cup {None}, deleted : BOOLEAN]
  BY SMT
<1>2. rows' \in [Ids -> [code : Codes \cup {None}, deleted : BOOLEAN]]
  BY <1>1 DEF TypeOK, Write
<1>3. touched' \in [Requests -> SUBSET Ids]
  BY DEF TypeOK, Write
<1>4. ASSUME NEW i \in Ids, NEW j \in Ids, Exists(i)', rows'[i].code = rows'[j].code
      PROVE  i = j
  <2>1. rows'[i] = IF i \in changed THEN new[i] ELSE rows[i]
    BY DEF Write
  <2>2. rows'[j] = IF j \in changed THEN new[j] ELSE rows[j]
    BY DEF Write
  <2>3. CASE i \in changed
    BY <1>4, <2>1, <2>2, <2>3 DEF HoldersOf
  <2>4. CASE i \notin changed
    BY <1>4, <2>1, <2>2, <2>4 DEF HoldersOf, CodesAreUnique, Exists
  <2> QED BY <2>3, <2>4
<1> QED BY <1>2, <1>3, <1>4 DEF CodesAreUnique

\* An INSERT under a key records the key as one that has created rows.
LEMMA InsertSafe ==
  ASSUME Safe, NEW p \in Requests, NEW status \in {"created", "error"}, Insert(p, status)
  PROVE  Safe'
<1> USE DEF Safe
<1>1. /\ pc[p] = "insert" /\ req[p].batch \in SUBSET Codes /\ req[p].key \in Keys \cup {None}
      /\ \A c \in req[p].batch : HoldersOf(c) = {}
      /\ created' = created \cup ({req[p].key} \ {None})
      /\ Respond(p, status) /\ UNCHANGED <<storage, cache, answered, faulty>>
  BY SMT DEF Insert, TypeOK, RequestRecord
<1>2. PICK place \in [req[p].batch -> FreeIds] :
        /\ \A c, d \in req[p].batch : place[c] = place[d] => c = d
        /\ LET at(i) == CHOOSE c \in req[p].batch : place[c] = i
               new == {place[c] : c \in req[p].batch}
           IN Write(new, [i \in new |-> [code |-> at(i), deleted |-> FALSE]])
  BY DEF Insert
<1> DEFINE at(i) == CHOOSE c \in req[p].batch : place[c] = i
           changed == {place[c] : c \in req[p].batch}
           new == [i \in changed |-> [code |-> at(i), deleted |-> FALSE]]
<1>3. \A i \in changed : at(i) \in req[p].batch /\ place[at(i)] = i
  OBVIOUS
<1>4. changed \in SUBSET Ids
  BY DEF FreeIds
<1>5. Write(changed, new)
  BY <1>2
<1>6. new \in [changed -> [code : Codes, deleted : BOOLEAN]]
  BY <1>1, <1>3
<1>7. \A i \in changed : new[i].code = at(i)
  OBVIOUS
<1> HIDE DEF at, changed, new
<1>8. /\ rows' \in [Ids -> [code : Codes \cup {None}, deleted : BOOLEAN]]
      /\ touched' \in [Requests -> SUBSET Ids] /\ CodesAreUnique'
  <2>1. \A i, j \in changed : new[i].code = new[j].code => i = j
    BY <1>3, <1>7
  <2>2. \A i \in changed : HoldersOf(new[i].code) \subseteq changed
    BY <1>1, <1>3, <1>7
  <2> QED BY <1>4, <1>5, <1>6, <2>1, <2>2, WriteKeepsCodesUnique
<1>9. /\ pc' \in [Requests -> PC] /\ req' \in [Requests -> RequestRecord]
      /\ \A q \in Requests \ {p} : pc'[q] = pc[q] /\ req'[q] = req[q]
      /\ \/ pc'[p] = "idle" /\ req'[p] = Blank
         \/ /\ pc'[p] = "store" /\ storage /\ req[p].key # None
            /\ req'[p].key = req[p].key /\ req'[p].status = status
  BY <1>1, RespondTyped DEF Statuses
<1>10. TypeOK'
  BY <1>1, <1>8, <1>9, SMT DEF TypeOK
<1>11. ASSUME NEW q \in Requests PROVE Carries(q)'
  BY <1>1, <1>9, SMT DEF Carries, Success
<1>12. OwedMetFault'
  BY <1>1, <1>9 DEF OwedMetFault
<1> QED
  BY <1>1, <1>8, <1>10, <1>11, <1>12 DEF ReplayIsTrue, Remembered

\* The code to save is one of the codes.
LEMMA CodeToSaveTyped ==
  ASSUME Safe, NEW p \in Requests, pc[p] = "save"
  PROVE  CodeToSave(p) \in Codes
<1>1. req[p].batch \in SUBSET Codes
  BY SMT DEF Safe, TypeOK, RequestRecord
<1>2. CASE req[p].kind = "update"
  BY <1>1, <1>2 DEF Safe, Carries, CodeToSave
<1>3. CASE req[p].kind # "update"
  BY <1>3 DEF Safe, Carries, CodeToSave
<1> QED BY <1>2, <1>3

\* The UPDATE statement writes a code that no other row has.
LEMMA SaveSafe ==
  ASSUME Safe, NEW p \in Requests, NEW status \in {"ok", "error"}, Save(p, status)
  PROVE  Safe'
<1> USE DEF Safe
<1>1. /\ pc[p] = "save" /\ req[p].id \in Ids /\ req[p].key = None
      /\ CodeToSave(p) \in Codes /\ HoldersOf(CodeToSave(p)) \subseteq {req[p].id}
      /\ Respond(p, status) /\ UNCHANGED <<storage, cache, created, answered, faulty>>
  BY CodeToSaveTyped DEF Save, Carries
<1> DEFINE changed == {req[p].id}
           new == [i \in changed |-> [code |-> CodeToSave(p), deleted |-> req[p].kind = "delete"]]
<1>2. Write(changed, new)
  BY DEF Save
<1>3. new \in [changed -> [code : Codes, deleted : BOOLEAN]]
  BY <1>1
<1>4. \A i \in changed : new[i].code = CodeToSave(p)
  OBVIOUS
<1>5. changed \in SUBSET Ids /\ \A i, j \in changed : i = j
  BY <1>1
<1> HIDE DEF changed, new
<1>6. /\ rows' \in [Ids -> [code : Codes \cup {None}, deleted : BOOLEAN]]
      /\ touched' \in [Requests -> SUBSET Ids] /\ CodesAreUnique'
  BY <1>1, <1>2, <1>3, <1>4, <1>5, WriteKeepsCodesUnique DEF changed
<1>7. /\ pc' \in [Requests -> PC] /\ req' \in [Requests -> RequestRecord]
      /\ \A q \in Requests \ {p} : pc'[q] = pc[q] /\ req'[q] = req[q]
      /\ pc'[p] = "idle" /\ req'[p] = Blank
  BY <1>1, RespondTyped DEF Statuses, Respond
<1>8. TypeOK'
  BY <1>1, <1>6, <1>7, SMT DEF TypeOK
<1>9. ASSUME NEW q \in Requests PROVE Carries(q)'
  BY <1>1, <1>7, SMT DEF Carries
<1>10. OwedMetFault'
  BY <1>1, <1>7 DEF OwedMetFault
<1> QED
  BY <1>1, <1>6, <1>8, <1>9, <1>10 DEF ReplayIsTrue, Remembered

\* Every step preserves Safe.
LEMMA NextSafe == Safe /\ [Next]_vars => Safe'
<1> SUFFICES ASSUME Safe, [Next]_vars PROVE Safe'
  OBVIOUS
<1>1. ASSUME NEW p \in Requests,
             \/ \E k \in Keys : PostWithKey(p, k)
             \/ \E c \in Codes : Post(p, c)
             \/ \E codes \in (SUBSET Codes) \ {{}} : BulkCreate(p, codes)
             \/ \E i \in Ids : Remove(p, i) \/ \E c \in Codes, e \in BOOLEAN : Put(p, i, c, e)
      PROVE  Safe'
  BY <1>1, ArrivalSafe
<1>2. ASSUME NEW p \in Requests, Replay(p) \/ PassOn(p) \/ LookupFails(p) PROVE Safe'
  BY <1>2, LookupSafe
<1>3. ASSUME NEW p \in Requests, NEW set \in BOOLEAN, Finish(p, set) PROVE Safe'
  BY <1>3, FinishSafe
<1>4. ASSUME NEW p \in Requests,
             \/ \E c \in Codes : CheckCode(p, c)
             \/ InsertFails(p) \/ NotFound(p) \/ Find(p) \/ CheckOther(p) \/ Load(p)
             \/ SaveFails(p) \/ StatementFails(p)
      PROVE  Safe'
  BY <1>4, ReadSafe
<1>5. ASSUME NEW p \in Requests, Insert(p, "created") \/ Insert(p, "error") PROVE Safe'
  BY <1>5, InsertSafe
<1>6. ASSUME NEW p \in Requests, Save(p, "ok") \/ Save(p, "error") PROVE Safe'
  BY <1>6, SaveSafe
<1>7. CASE (\E k \in Keys : Expire(k)) \/ Crash
  BY <1>7, ExpireOrCrashSafe
<1>8. CASE UNCHANGED vars
  <2> USE <1>8 DEF vars, table, history
  <2>1. TypeOK'
    BY DEF Safe, TypeOK
  <2>2. (\A p \in Requests : Carries(p))' /\ OwedMetFault'
    BY DEF Safe, Carries, OwedMetFault
  <2> QED
    BY <2>1, <2>2 DEF Safe, CodesAreUnique, Exists, ReplayIsTrue, Remembered
<1> QED BY <1>1, <1>2, <1>3, <1>4, <1>5, <1>6, <1>7, <1>8 DEF Next

-----------------------------------------------------------------------------
(***************************************************************************)
(* Deleted rows.  A save that finds its row deleted has seen it written    *)
(* since it began, and a row that is deleted has a code.                   *)
(***************************************************************************)
SavesAreWarned ==
  \A p \in Requests : pc[p] = "save" /\ rows[req[p].id].deleted => req[p].id \in touched[p]

DeletedExist == \A i \in Ids : rows[i].deleted => Exists(i)

OverlapOnly ==
  \A i \in Ids : rows[i].deleted /\ ~rows'[i].deleted =>
     \E p \in Requests : /\ pc[p] = "save" /\ pc'[p] # "save"
                         /\ req[p].id = i /\ i \in touched[p]

\* A step that leaves the table, and brings nobody to save.
LEMMA QuietStep ==
  ASSUME SavesAreWarned, DeletedExist, rows' = rows,
         \A p \in Requests : pc'[p] = "save" =>
            pc[p] = "save" /\ req'[p].id = req[p].id /\ touched'[p] = touched[p]
  PROVE  SavesAreWarned' /\ DeletedExist' /\ OverlapOnly
BY DEF SavesAreWarned, DeletedExist, OverlapOnly, Exists

\* Every step keeps both, and brings a deleted row back only as a save does.
LEMMA NextOverlap ==
  ASSUME Safe, SavesAreWarned, DeletedExist, [Next]_vars
  PROVE  SavesAreWarned' /\ DeletedExist' /\ OverlapOnly
<1> USE DEF Goto, table, history
<1>1. ASSUME NEW p \in Requests, NEW r, NEW to \in {"lookup", "check", "find"}, Begin(p, r, to)
      PROVE  SavesAreWarned' /\ DeletedExist' /\ OverlapOnly
  BY <1>1, QuietStep, SMT DEF Begin, Safe, TypeOK
<1>2. ASSUME NEW p \in Requests,
             \/ \E k \in Keys : PostWithKey(p, k)
             \/ \E c \in Codes : Post(p, c)
             \/ \E codes \in (SUBSET Codes) \ {{}} : BulkCreate(p, codes)
             \/ \E i \in Ids : Remove(p, i) \/ \E c \in Codes, e \in BOOLEAN : Put(p, i, c, e)
      PROVE  SavesAreWarned' /\ DeletedExist' /\ OverlapOnly
  BY <1>1, <1>2 DEF PostWithKey, Post, BulkCreate, Remove, Put
<1>3. ASSUME NEW p \in Requests, NEW status \in Statuses, pc[p] # "idle", Respond(p, status),
             rows' = rows, touched' = touched
      PROVE  SavesAreWarned' /\ DeletedExist' /\ OverlapOnly
  <2>1. /\ \A q \in Requests \ {p} : pc'[q] = pc[q] /\ req'[q] = req[q]
        /\ pc'[p] # "save"
    BY <1>3, RespondTyped DEF Safe
  <2> QED BY <1>3, <2>1, QuietStep
<1>4. ASSUME NEW p \in Requests,
             \/ Replay(p) \/ PassOn(p) \/ LookupFails(p) \/ Find(p)
             \/ \E set \in BOOLEAN : Finish(p, set)
      PROVE  SavesAreWarned' /\ DeletedExist' /\ OverlapOnly
  <2>1. rows' = rows /\ touched' = touched
    BY <1>4 DEF Replay, PassOn, LookupFails, Find, Finish
  <2>2. \E to \in {"idle", "check", "checkOther", "load"} : pc' = [pc EXCEPT ![p] = to]
    BY <1>4 DEF Replay, PassOn, LookupFails, Find, Finish
  <2>3. req' = req \/ req' = [req EXCEPT ![p] = Blank]
    BY <1>4 DEF Replay, PassOn, LookupFails, Find, Finish
  <2> QED BY <2>1, <2>2, <2>3, QuietStep, SMT DEF Safe, TypeOK
<1>5. ASSUME NEW p \in Requests, NEW c \in Codes, CheckCode(p, c)
      PROVE  SavesAreWarned' /\ DeletedExist' /\ OverlapOnly
  <2>1. CASE ExistsByCode(c)
    BY <1>3, <1>5, <2>1 DEF CheckCode, Statuses
  <2>2. CASE ~ExistsByCode(c)
    <3>1. /\ pc[p] = "check" /\ rows' = rows /\ touched' = touched
          /\ pc' = pc \/ pc' = [pc EXCEPT ![p] = "insert"]
      BY <1>5, <2>2 DEF CheckCode
    <3>2. \A q \in Requests \ {p} : req'[q] = req[q]
      BY <1>5, <2>2 DEF CheckCode, Safe, TypeOK
    <3> QED BY <3>1, <3>2, QuietStep, SMT DEF Safe, TypeOK
  <2> QED BY <2>1, <2>2
<1>6. ASSUME NEW p \in Requests, CheckOther(p)
      PROVE  SavesAreWarned' /\ DeletedExist' /\ OverlapOnly
  <2>1. CASE Respond(p, "exists")
    BY <1>3, <1>6, <2>1 DEF CheckOther, Statuses
  <2>2. CASE pc' = [pc EXCEPT ![p] = "load"] /\ UNCHANGED req
    BY <1>6, <2>2, QuietStep, SMT DEF CheckOther, Safe, TypeOK
  <2> QED BY <1>6, <2>1, <2>2 DEF CheckOther
<1>7. ASSUME NEW p \in Requests,
             InsertFails(p) \/ NotFound(p) \/ SaveFails(p) \/ StatementFails(p)
      PROVE  SavesAreWarned' /\ DeletedExist' /\ OverlapOnly
  BY <1>3, <1>7 DEF InsertFails, NotFound, SaveFails, StatementFails, Statuses
<1>8. ASSUME NEW p \in Requests, Load(p)
      PROVE  SavesAreWarned' /\ DeletedExist' /\ OverlapOnly
  <2>1. /\ rows' = rows /\ touched' = touched /\ ~rows[req[p].id].deleted
        /\ pc' = [pc EXCEPT ![p] = "save"]
        /\ req' = [req EXCEPT ![p].old = rows[req[p].id].code]
    BY <1>8 DEF Load, Live
  <2>2. \A q \in Requests : req'[q].id = req[q].id
    BY <2>1, SMT DEF Safe, TypeOK, RequestRecord
  <2> QED
    BY <2>1, <2>2, SMT DEF Safe, TypeOK, SavesAreWarned, DeletedExist, OverlapOnly, Exists
<1>9. ASSUME NEW p \in Requests, NEW status \in Statuses, Insert(p, status)
      PROVE  SavesAreWarned' /\ DeletedExist' /\ OverlapOnly
  <2>1. pc[p] = "insert" /\ Respond(p, status)
    BY <1>9 DEF Insert
  <2>2. PICK place \in [req[p].batch -> FreeIds] :
          LET at(i) == CHOOSE c \in req[p].batch : place[c] = i
              new == {place[c] : c \in req[p].batch}
          IN Write(new, [i \in new |-> [code |-> at(i), deleted |-> FALSE]])
    BY <1>9 DEF Insert
  <2> DEFINE at(i) == CHOOSE c \in req[p].batch : place[c] = i
             changed == {place[c] : c \in req[p].batch}
  <2>3. \A i \in Ids : IF i \in changed THEN rows'[i].deleted = FALSE ELSE rows'[i] = rows[i]
    BY <2>2 DEF Write
  <2>4. \A i \in changed : ~Exists(i)
    BY DEF FreeIds
  <2>5. \A q \in Requests : pc[q] # "idle" => touched[q] \subseteq touched'[q]
    BY <2>2 DEF Write
  <2>6. /\ \A q \in Requests \ {p} : pc'[q] = pc[q] /\ req'[q] = req[q]
        /\ pc'[p] # "save"
    BY <2>1, <1>9, RespondTyped DEF Safe
  <2>7. \A q \in Requests : pc[q] = "save" => req[q].id \in Ids
    BY DEF Safe, Carries
  <2> HIDE DEF at, changed
  <2>8. SavesAreWarned'
    BY <2>3, <2>5, <2>6, <2>7 DEF SavesAreWarned
  <2>9. DeletedExist' /\ OverlapOnly
    BY <2>3, <2>4 DEF DeletedExist, OverlapOnly, Exists
  <2> QED BY <2>8, <2>9
<1>10. ASSUME NEW p \in Requests, NEW status \in Statuses, Save(p, status)
       PROVE  SavesAreWarned' /\ DeletedExist' /\ OverlapOnly
  <2>1. /\ pc[p] = "save" /\ req[p].id \in Ids /\ CodeToSave(p) \in Codes
        /\ Respond(p, status)
    BY <1>10, CodeToSaveTyped DEF Save, Safe, Carries
  <2>2. \A i \in Ids : IF i = req[p].id THEN rows'[i].code = CodeToSave(p)
                                        ELSE rows'[i] = rows[i]
    BY <1>10 DEF Save, Write
  <2>3. \A q \in Requests : pc[q] # "idle" => touched'[q] = touched[q] \cup {req[p].id}
    BY <1>10 DEF Save, Write
  <2>4. /\ \A q \in Requests \ {p} : pc'[q] = pc[q] /\ req'[q] = req[q]
        /\ pc'[p] # "save"
    BY <2>1, <1>10, RespondTyped DEF Safe
  <2>5. \A q \in Requests : pc[q] = "save" => req[q].id \in Ids
    BY DEF Safe, Carries
  <2>6. SavesAreWarned'
    BY <2>2, <2>3, <2>4, <2>5 DEF SavesAreWarned
  <2>7. DeletedExist'
    BY <2>1, <2>2, BarAssumption DEF DeletedExist, Exists
  <2>8. OverlapOnly
    BY <2>1, <2>2, <2>4 DEF OverlapOnly, SavesAreWarned
  <2> QED BY <2>6, <2>7, <2>8
<1>11. CASE (\E k \in Keys : Expire(k)) \/ Crash \/ UNCHANGED vars
  BY <1>11, QuietStep DEF Expire, Crash, vars
<1> QED
  BY <1>2, <1>4, <1>5, <1>6, <1>7, <1>8, <1>9, <1>10, <1>11 DEF Next, Statuses

-----------------------------------------------------------------------------
(***************************************************************************)
(* Conflicts.  A code that a request has checked has no live row but those *)
(* that were written since the request began, and its own.                 *)
(***************************************************************************)
Explained(p, c) ==
  \A i \in HoldersOf(c) \ {req[p].id} : rows[i].deleted \/ i \in touched[p]

\* The codes a request has checked at each of its steps.
Cleared(p) ==
  /\ pc[p] \in {"lookup", "check", "insert"} =>
       \A c \in req[p].batch \ req[p].left : Explained(p, c)
  /\ pc[p] = "insert" => req[p].left = {}
  /\ pc[p] \in {"load", "save"} /\ req[p].kind = "update" =>
       \A c \in req[p].batch : Explained(p, c)
  /\ pc[p] = "save" /\ req[p].kind = "delete" => Explained(p, req[p].old)

\* The histories tell of every row that is written.
Told(p) ==
  /\ touched[p] \subseteq touched'[p]
  /\ \A i \in Ids : rows'[i] = rows[i] \/ i \in touched'[p]

\* What is explained stays so, whatever is written.
LEMMA StaysExplained ==
  ASSUME NEW p \in Requests, NEW c, Told(p), req'[p].id = req[p].id, Explained(p, c)
  PROVE  Explained(p, c)'
BY DEF Told, Explained, HoldersOf

\* A request that stays at its step, or passes the middleware.
LEMMA StaysCleared ==
  ASSUME NEW p \in Requests, Cleared(p), Told(p), req'[p] = req[p],
         pc'[p] = pc[p] \/ (pc[p] = "lookup" /\ pc'[p] = "check")
  PROVE  Cleared(p)'
<1>1. \A c : Explained(p, c) => Explained(p, c)'
  BY StaysExplained
<1> QED BY <1>1 DEF Cleared

\* The row of a code is found by the index, and is the only one.
LEMMA OwnCodeIsExplained ==
  ASSUME Safe, NEW p \in Requests, req[p].id \in Ids, Live(req[p].id)
  PROVE  Explained(p, rows[req[p].id].code)
BY DEF Safe, CodesAreUnique, Explained, HoldersOf, Live

\* A code that is not found belongs to deleted rows only.
LEMMA FreeCodeIsExplained ==
  ASSUME NEW p \in Requests, NEW c \in Codes, ~ExistsByCode(c)
  PROVE  Explained(p, c)
BY BarAssumption DEF ExistsByCode, Explained, HoldersOf, Live, Exists

\* A step of p that writes no row, or tells everybody of those it writes.
LEMMA OneMoves ==
  ASSUME \A q \in Requests : Cleared(q), NEW p \in Requests,
         \A q \in Requests \ {p} : pc'[q] = pc[q] /\ req'[q] = req[q],
         \A q \in Requests \ {p} : pc[q] # "idle" => Told(q),
         Cleared(p)'
  PROVE  \A q \in Requests : Cleared(q)'
<1>1. ASSUME NEW q \in Requests \ {p}, pc[q] = "idle" PROVE Cleared(q)'
  BY <1>1 DEF Cleared
<1>2. ASSUME NEW q \in Requests \ {p}, pc[q] # "idle" PROVE Cleared(q)'
  <2>1. Told(q) /\ pc'[q] = pc[q] /\ req'[q] = req[q] /\ Cleared(q)
    BY <1>2
  <2> QED BY <2>1, StaysCleared
<1> QED BY <1>1, <1>2

\* A request arrives with nothing checked.
LEMMA ArrivalCleared ==
  ASSUME Safe, \A q \in Requests : Cleared(q), NEW p \in Requests, NEW r,
         NEW to \in {"lookup", "check", "find"}, Begin(p, r, to), to # "find" => r.left = r.batch
  PROVE  \A q \in Requests : Cleared(q)'
<1>1. /\ pc' = [pc EXCEPT ![p] = to] /\ req' = [req EXCEPT ![p] = r]
      /\ touched' = [touched EXCEPT ![p] = {}] /\ rows' = rows
  BY DEF Begin, Goto, table
<1>2. pc'[p] = to /\ req'[p] = r
  BY <1>1 DEF Safe, TypeOK
<1>3. Cleared(p)'
  BY <1>2 DEF Cleared
<1>4. \A q \in Requests \ {p} : pc'[q] = pc[q] /\ req'[q] = req[q] /\ Told(q)
  BY <1>1 DEF Safe, TypeOK, Told
<1> QED BY <1>3, <1>4, OneMoves

\* A response ends the steps of the use case.
LEMMA ResponseCleared ==
  ASSUME Safe, \A q \in Requests : Cleared(q), NEW p \in Requests, NEW status \in Statuses,
         pc[p] # "idle", Respond(p, status),
         \A q \in Requests \ {p} : pc[q] # "idle" => Told(q)
  PROVE  \A q \in Requests : Cleared(q)'
<1>1. /\ \A q \in Requests \ {p} : pc'[q] = pc[q] /\ req'[q] = req[q]
      /\ pc'[p] \in {"idle", "store"}
  BY RespondTyped DEF Safe
<1>2. Cleared(p)'
  BY <1>1 DEF Cleared
<1> QED BY <1>1, <1>2, OneMoves

\* A statement tells every request in progress of the rows it writes.
LEMMA WritesAreTold ==
  ASSUME Safe, NEW changed, NEW new, Write(changed, new)
  PROVE  \A q \in Requests : pc[q] # "idle" => Told(q)
BY DEF Safe, TypeOK, Write, Told

\* Every step keeps what is cleared.
LEMMA NextCleared ==
  ASSUME Safe, \A q \in Requests : Cleared(q), [Next]_vars
  PROVE  \A q \in Requests : Cleared(q)'
<1> USE DEF Goto, table, history
<1>1. ASSUME NEW p \in Requests,
             \/ \E k \in Keys : PostWithKey(p, k)
             \/ \E c \in Codes : Post(p, c)
             \/ \E codes \in (SUBSET Codes) \ {{}} : BulkCreate(p, codes)
             \/ \E i \in Ids : Remove(p, i) \/ \E c \in Codes, e \in BOOLEAN : Put(p, i, c, e)
      PROVE  \A q \in Requests : Cleared(q)'
  BY <1>1, ArrivalCleared DEF PostWithKey, Post, BulkCreate, Remove, Put, Asks
<1>2. ASSUME NEW p \in Requests, NEW status \in Statuses, pc[p] # "idle", Respond(p, status),
             rows' = rows, touched' = touched
      PROVE  \A q \in Requests : Cleared(q)'
  BY <1>2, ResponseCleared DEF Told
<1>3. ASSUME NEW p \in Requests, Replay(p) \/ (\E set \in BOOLEAN : Finish(p, set))
      PROVE  \A q \in Requests : Cleared(q)'
  <2>1. /\ rows' = rows /\ touched' = touched /\ pc' = [pc EXCEPT ![p] = "idle"]
        /\ req' = [req EXCEPT ![p] = Blank]
    BY <1>3 DEF Replay, Finish
  <2> QED BY <2>1, OneMoves DEF Safe, TypeOK, Cleared, Told
<1>4. ASSUME NEW p \in Requests, PassOn(p) \/ LookupFails(p)
      PROVE  \A q \in Requests : Cleared(q)'
  <2>1. /\ rows' = rows /\ touched' = touched /\ pc[p] = "lookup"
        /\ pc' = [pc EXCEPT ![p] = "check"] /\ req' = req
    BY <1>4 DEF PassOn, LookupFails
  <2>2. \A q \in Requests : pc'[q] = pc[q] \/ (pc[q] = "lookup" /\ pc'[q] = "check")
    BY <2>1 DEF Safe, TypeOK
  <2> QED BY <2>1, <2>2, StaysCleared DEF Told
<1>5. ASSUME NEW p \in Requests, NEW c \in Codes, CheckCode(p, c)
      PROVE  \A q \in Requests : Cleared(q)'
  <2>1. CASE ExistsByCode(c)
    BY <1>2, <1>5, <2>1 DEF CheckCode, Statuses
  <2>2. CASE ~ExistsByCode(c)
    <3> DEFINE r == [req[p] EXCEPT !.left = @ \ {c}]
    <3>1. /\ pc[p] = "check" /\ rows' = rows /\ touched' = touched
          /\ req' = [req EXCEPT ![p] = r]
          /\ pc' = IF req[p].left = {c} THEN [pc EXCEPT ![p] = "insert"] ELSE pc
      BY <1>5, <2>2 DEF CheckCode
    <3>2. /\ r.left = req[p].left \ {c} /\ r.batch = req[p].batch /\ r.id = req[p].id
      BY SMT DEF Safe, TypeOK, RequestRecord
    <3> HIDE DEF r
    <3>3. /\ req'[p] = r /\ pc'[p] \in {"check", "insert"}
          /\ pc'[p] = "insert" => req[p].left = {c}
          /\ \A q \in Requests \ {p} : pc'[q] = pc[q] /\ req'[q] = req[q]
      BY <3>1 DEF Safe, TypeOK
    <3>4. \A d : Explained(p, d) => Explained(p, d)'
      BY <3>1, <3>2, <3>3, StaysExplained DEF Told
    <3>5. Explained(p, c)
      BY <2>2, FreeCodeIsExplained
    <3>6. Cleared(p)'
      BY <3>1, <3>2, <3>3, <3>4, <3>5 DEF Cleared
    <3> QED BY <3>1, <3>3, <3>6, OneMoves DEF Told
  <2> QED BY <2>1, <2>2
<1>6. ASSUME NEW p \in Requests,
             InsertFails(p) \/ NotFound(p) \/ SaveFails(p) \/ StatementFails(p)
      PROVE  \A q \in Requests : Cleared(q)'
  BY <1>2, <1>6 DEF InsertFails, NotFound, SaveFails, StatementFails, Statuses
<1>7. ASSUME NEW p \in Requests, NEW status \in Statuses, Insert(p, status)
      PROVE  \A q \in Requests : Cleared(q)'
  <2>1. pc[p] = "insert" /\ Respond(p, status)
    BY <1>7 DEF Insert
  <2>2. \E changed, new : Write(changed, new)
    BY <1>7 DEF Insert
  <2>3. \A q \in Requests : pc[q] # "idle" => Told(q)
    BY <2>2, WritesAreTold
  <2> QED BY <2>1, <2>3, ResponseCleared
<1>8. ASSUME NEW p \in Requests, NEW status \in Statuses, Save(p, status)
      PROVE  \A q \in Requests : Cleared(q)'
  <2>1. pc[p] = "save" /\ Respond(p, status)
    BY <1>8 DEF Save
  <2>2. \E changed, new : Write(changed, new)
    BY <1>8 DEF Save
  <2>3. \A q \in Requests : pc[q] # "idle" => Told(q)
    BY <2>2, WritesAreTold
  <2> QED BY <2>1, <2>3, ResponseCleared
<1>9. ASSUME NEW p \in Requests, Find(p)
      PROVE  \A q \in Requests : Cleared(q)'
  <2>1. /\ rows' = rows /\ touched' = touched /\ req' = req /\ pc[p] = "find"
        /\ Live(req[p].id) /\ req[p].id \in Ids
    BY <1>9 DEF Find, Safe, Carries
  <2>2. /\ \A q \in Requests \ {p} : pc'[q] = pc[q] /\ req'[q] = req[q]
        /\ pc'[p] = IF req[p].kind = "update" /\ \/ ~req[p].exact
                                                 \/ req[p].batch # {rows[req[p].id].code}
                    THEN "checkOther" ELSE "load"
    BY <1>9 DEF Find, Safe, TypeOK
  <2>3. Explained(p, rows[req[p].id].code)'
    BY <2>1, OwnCodeIsExplained, StaysExplained DEF Told
  <2>4. rows'[req[p].id].code = rows[req[p].id].code
    BY <2>1
  <2>5. Cleared(p)'
    BY <2>1, <2>2, <2>3 DEF Cleared
  <2> QED BY <2>1, <2>2, <2>5, OneMoves DEF Told
<1>10. ASSUME NEW p \in Requests, CheckOther(p)
       PROVE  \A q \in Requests : Cleared(q)'
  <2>1. CASE \E c \in req[p].batch : ExistsByCode(c)
    BY <1>2, <1>10, <2>1 DEF CheckOther, Statuses
  <2>2. CASE ~ \E c \in req[p].batch : ExistsByCode(c)
    <3>1. /\ rows' = rows /\ touched' = touched /\ req' = req
          /\ pc' = [pc EXCEPT ![p] = "load"]
      BY <1>10, <2>2 DEF CheckOther
    <3>2. pc'[p] = "load" /\ \A q \in Requests \ {p} : pc'[q] = pc[q] /\ req'[q] = req[q]
      BY <3>1 DEF Safe, TypeOK
    <3>3. req[p].batch \subseteq Codes
      BY SMT DEF Safe, TypeOK, RequestRecord
    <3>4. \A c \in req[p].batch : Explained(p, c)'
      BY <2>2, <3>1, <3>3, FreeCodeIsExplained, StaysExplained DEF Told
    <3>5. Cleared(p)'
      BY <3>1, <3>2, <3>4 DEF Cleared
    <3> QED BY <3>1, <3>2, <3>5, OneMoves DEF Told
  <2> QED BY <2>1, <2>2
<1>11. ASSUME NEW p \in Requests, Load(p)
       PROVE  \A q \in Requests : Cleared(q)'
  <2> DEFINE r == [req[p] EXCEPT !.old = rows[req[p].id].code]
  <2>1. /\ rows' = rows /\ touched' = touched /\ pc[p] = "load"
        /\ Live(req[p].id) /\ req[p].id \in Ids
        /\ pc' = [pc EXCEPT ![p] = "save"] /\ req' = [req EXCEPT ![p] = r]
    BY <1>11 DEF Load, Safe, Carries
  <2>2. /\ r.kind = req[p].kind /\ r.batch = req[p].batch /\ r.id = req[p].id
        /\ r.old = rows[req[p].id].code
    BY SMT DEF Safe, TypeOK, RequestRecord
  <2> HIDE DEF r
  <2>3. /\ \A q \in Requests \ {p} : pc'[q] = pc[q] /\ req'[q] = req[q]
        /\ pc'[p] = "save" /\ req'[p] = r
    BY <2>1 DEF Safe, TypeOK
  <2>4. \A c : Explained(p, c) => Explained(p, c)'
    BY <2>1, <2>2, <2>3, StaysExplained DEF Told
  <2>5. Explained(p, r.old)
    BY <2>1, <2>2, OwnCodeIsExplained
  <2>6. Cleared(p)'
    BY <2>1, <2>2, <2>3, <2>4, <2>5 DEF Cleared
  <2> QED BY <2>1, <2>3, <2>6, OneMoves DEF Told
<1>12. CASE Crash
  BY <1>12 DEF Crash, Cleared
<1>13. CASE (\E k \in Keys : Expire(k)) \/ UNCHANGED vars
  BY <1>13, StaysCleared DEF Expire, vars, Told
<1> QED
  BY <1>1, <1>3, <1>4, <1>5, <1>6, <1>7, <1>8, <1>9, <1>10, <1>11, <1>12, <1>13 DEF Next, Statuses

-----------------------------------------------------------------------------
\* Two rows never have the same code, and what the middleware remembers is
\* the answer to a create that took place: for any number of requests, and
\* with crashes, lost answers and a storage that fails.
THEOREM BarsAreSafe == Spec => [](TypeOK /\ CodesAreUnique /\ ReplayIsTrue)
<1>1. Safe => TypeOK /\ CodesAreUnique /\ ReplayIsTrue
  BY DEF Safe
<1> QED BY InitSafe, NextSafe, <1>1, PTL DEF Spec

\* A retry of a create that was answered creates nothing, unless the storage
\* of the middleware failed for its key or let the key expire.
THEOREM RetriesCreateNothing == Spec => RetryCreatesNothing
<1>1. Safe /\ [Next]_vars =>
        [\A p \in Requests :
           pc[p] = "insert" /\ pc'[p] # "insert" /\ rows' # rows /\ req[p].owed /\ storage
           => req[p].key \in faulty]_vars
  BY DEF Safe, OwedMetFault
<1> QED BY InitSafe, NextSafe, <1>1, PTL DEF Spec, RetryCreatesNothing

\* A deleted row comes back only through an update that was in progress when
\* the row was deleted.
THEOREM DeletedRowsReturnByOverlap == Spec => ReturnNeedsOverlap
<1>1. Init => SavesAreWarned /\ DeletedExist
  BY DEF Init, SavesAreWarned, DeletedExist, NoRow
<1>2. Safe /\ SavesAreWarned /\ DeletedExist /\ [Next]_vars => SavesAreWarned' /\ DeletedExist'
  BY NextOverlap
<1>3. Safe /\ SavesAreWarned /\ DeletedExist /\ [Next]_vars =>
        [\A i \in Ids : rows[i].deleted /\ ~rows'[i].deleted =>
           \E p \in Requests : /\ pc[p] = "save" /\ pc'[p] # "save"
                               /\ req[p].id = i /\ i \in touched[p]]_vars
  BY NextOverlap DEF OverlapOnly
<1> QED BY InitSafe, NextSafe, <1>1, <1>2, <1>3, PTL DEF Spec, ReturnNeedsOverlap

\* A statement runs into the UNIQUE index, and the client gets a 500, only for
\* a code of a deleted row or one that another request has written meanwhile.
THEOREM ConflictsNeedOverlap == Spec => ConflictsAreExplained
<1>1. Init => \A p \in Requests : Cleared(p)
  BY DEF Init, Cleared
<1>2. Safe /\ (\A p \in Requests : Cleared(p)) /\ [Next]_vars => (\A p \in Requests : Cleared(p))'
  BY NextCleared
<1>3. ASSUME Safe, \A p \in Requests : Cleared(p), NEW p \in Requests, InsertFails(p) \/ SaveFails(p)
      PROVE  LET wanted == IF pc[p] = "insert" THEN req[p].batch ELSE {CodeToSave(p)}
             IN \A c \in wanted : \A i \in HoldersOf(c) \ {req[p].id} :
                  rows[i].deleted \/ i \in touched[p]
  <2>1. CASE pc[p] = "insert"
    BY <1>3, <2>1 DEF Cleared, Explained
  <2>2. CASE pc[p] # "insert"
    <3>1. pc[p] = "save" /\ Carries(p)
      BY <1>3, <2>2 DEF InsertFails, SaveFails, Safe
    <3>2. Explained(p, CodeToSave(p))
      BY <1>3, <3>1 DEF Cleared, Carries, CodeToSave
    <3> QED BY <2>2, <3>2 DEF Explained
  <2> QED BY <2>1, <2>2
<1>4. Safe /\ (\A p \in Requests : Cleared(p)) /\ [Next]_vars =>
        [\A p \in Requests : InsertFails(p) \/ SaveFails(p) =>
           LET wanted == IF pc[p] = "insert" THEN req[p].batch ELSE {CodeToSave(p)}
           IN \A c \in wanted : \A i \in HoldersOf(c) \ {req[p].id} :
                rows[i].deleted \/ i \in touched[p]]_vars
  BY <1>3
<1> QED BY InitSafe, NextSafe, <1>1, <1>2, <1>4, PTL DEF Spec, ConflictsAreExplained
=============================================================================
