------------------------------ MODULE BarStore ------------------------------
(***************************************************************************)
(* The table of bars and the requests that change it: the create, update   *)
(* and delete handlers check first and write later, in separate            *)
(* statements, over a table with soft deletion and one UNIQUE index.  The  *)
(* public create route runs behind the idempotency middleware, which       *)
(* remembers successful answers in Redis under the key that the client     *)
(* sent.  Requests that are rejected before they touch the table (no       *)
(* permission, no key, a body that is not valid) are left out.             *)
(***************************************************************************)
EXTENDS Naturals, FiniteSets

CONSTANTS
  Requests,  \* slots: how many requests are in progress at once
  Ids,       \* bound: the rows that the table can hold
  Codes,     \* bar codes, trimmed and in upper case
  Keys,      \* Idempotency-Key headers, each with the user that sends it
  BodyOf,    \* [Keys -> Codes]: a client keeps one key for one body
  None

\* What a request is answered: the last three are a 409 and two 500s.
Statuses == {"created", "ok", "notFound", "exists", "duplicateKey", "error"}

ASSUME BarAssumption ==
  /\ IsFiniteSet(Ids)
  /\ BodyOf \in [Keys -> Codes]
  /\ None \notin Codes \cup Keys \cup Ids \cup Statuses

VARIABLES
  storage,   \* whether the middleware has a Redis behind it
  rows,      \* the table: [Ids -> the row, with code None for none]
  cache,     \* [Keys -> the status that is remembered, None for none]
  pc,        \* [Requests -> the next step of the request]
  req,       \* [Requests -> what is asked, and what has been read so far]
  created,   \* history: the keys under which rows have been inserted
  answered,  \* history: the keys whose client has received a 2xx
  faulty,    \* history: the keys that the storage failed, or let expire
  touched    \* history: [Requests -> rows written while it was in progress]

table == <<storage, rows>>
history == <<created, answered, faulty, touched>>
vars == <<table, cache, pc, req, history>>

PC == {"idle", "lookup", "check", "insert", "find", "checkOther", "load",
       "save", "store"}

NoRow == [code |-> None, deleted |-> FALSE]

\* batch: the codes to insert, or the new code of an update, or nothing for
\* a deletion.  left: those that a create has not checked yet.  exact: the
\* code was sent in the form in which it is stored.  old: the code of the row
\* as the last read found it.  owed: the key was answered before.
Asks(kind, key, id, batch, exact, owed) ==
  [kind |-> kind, key |-> key, id |-> id, batch |-> batch, left |-> batch,
   exact |-> exact, old |-> None, owed |-> owed, status |-> None]

Blank == Asks(None, None, None, {}, TRUE, FALSE)

RequestRecord ==
  [kind : {"create", "update", "delete", None}, key : Keys \cup {None},
   id : Ids \cup {None}, batch : SUBSET Codes, left : SUBSET Codes,
   exact : BOOLEAN, old : Codes \cup {None}, owed : BOOLEAN,
   status : Statuses \cup {None}]

Init ==
  /\ storage \in BOOLEAN
  /\ rows = [i \in Ids |-> NoRow]
  /\ cache = [k \in Keys |-> None]
  /\ pc = [p \in Requests |-> "idle"]
  /\ req = [p \in Requests |-> Blank]
  /\ created = {} /\ answered = {} /\ faulty = {}
  /\ touched = [p \in Requests |-> {}]

-----------------------------------------------------------------------------
Exists(i) == rows[i].code # None
\* A mistake to be noticed: deleted rows are found as well.
AnyRow(i) == Exists(i)
\* "deleted_at IS NULL"
Live(i) == Exists(i) /\ ~rows[i].deleted
FreeIds == {i \in Ids : ~Exists(i)}

\* The UNIQUE index on code: deleted rows count.
HoldersOf(code) == {i \in Ids : rows[i].code = code}
\* Usecase.ExistsByCode: deleted rows do not count.
ExistsByCode(code) == \E i \in HoldersOf(code) : Live(i)

Success(status) == status \in {"created", "ok"}

\* One statement writes the rows in changed; the requests in progress are
\* those whose histories it belongs to.
Write(changed, new) ==
  /\ rows' = [i \in Ids |-> IF i \in changed THEN new[i] ELSE rows[i]]
  /\ touched' = [p \in Requests |-> IF pc[p] = "idle" THEN {} ELSE touched[p] \cup changed]

\* The handler has written its response.  The middleware has one more step
\* to make when there is a key; all other responses leave the server.
Respond(p, status) ==
  IF req[p].key # None /\ storage
  THEN /\ pc' = [pc EXCEPT ![p] = "store"]
       /\ req' = [req EXCEPT ![p].status = status]
  ELSE /\ pc' = [pc EXCEPT ![p] = "idle"]
       /\ req' = [req EXCEPT ![p] = Blank]

Goto(p, from, to) == pc[p] = from /\ pc' = [pc EXCEPT ![p] = to]

-----------------------------------------------------------------------------
\* A request arrives.
Begin(p, r, to) ==
  /\ Goto(p, "idle", to)
  /\ req' = [req EXCEPT ![p] = r]
  /\ touched' = [touched EXCEPT ![p] = {}]
  /\ UNCHANGED <<table, cache, created, answered, faulty>>

\* POST /bars on the public route: the key is required there.
PostWithKey(p, k) ==
  Begin(p, Asks("create", k, None, {BodyOf[k]}, TRUE, k \in answered),
        IF storage THEN "lookup" ELSE "check")

\* POST /bars on the internal and partner routes, and CreateBar over gRPC.
Post(p, code) ==
  Begin(p, Asks("create", None, None, {code}, TRUE, FALSE), "check")

\* Several bars at once.  The check goes through the codes in any order.
BulkCreate(p, codes) ==
  Begin(p, Asks("create", None, None, codes, TRUE, FALSE), "check")

Put(p, i, code, exact) ==
  Begin(p, Asks("update", None, i, {code}, exact, FALSE), "find")

Remove(p, i) ==
  Begin(p, Asks("delete", None, i, {}, TRUE, FALSE), "find")

-----------------------------------------------------------------------------
(***************************************************************************)
(* The idempotency middleware, around the create handler.                  *)
(***************************************************************************)
Replay(p) ==
  /\ pc[p] = "lookup"
  /\ cache[req[p].key] # None
  /\ pc' = [pc EXCEPT ![p] = "idle"]
  /\ req' = [req EXCEPT ![p] = Blank]
  /\ answered' = answered \cup {req[p].key}
  /\ UNCHANGED <<table, cache, created, faulty, touched>>

PassOn(p) ==
  /\ Goto(p, "lookup", "check")
  /\ cache[req[p].key] = None
  /\ UNCHANGED <<table, cache, req, history>>

\* storage.Get fails: the request is taken for a new one.
LookupFails(p) ==
  /\ Goto(p, "lookup", "check")
  /\ faulty' = faulty \cup {req[p].key}
  /\ UNCHANGED <<table, cache, req, created, answered, touched>>

\* Mistakes to be noticed: every answer is remembered, or none is.
FinishAll(p, set) ==
  LET k == req[p].key
      ok == Success(req[p].status)
  IN /\ Goto(p, "store", "idle")
     /\ req' = [req EXCEPT ![p] = Blank]
     /\ cache' = IF set THEN [cache EXCEPT ![k] = req[p].status] ELSE cache
     /\ faulty' = IF ~set THEN faulty \cup {k} ELSE faulty
     /\ answered' = IF ok THEN answered \cup {k} ELSE answered
     /\ UNCHANGED <<table, created, touched>>
FinishForgets(p, set) ==
  LET ok == Success(req[p].status)
  IN /\ Goto(p, "store", "idle")
     /\ req' = [req EXCEPT ![p] = Blank]
     /\ answered' = IF ok THEN answered \cup {req[p].key} ELSE answered
     /\ UNCHANGED <<table, cache, created, faulty, touched>>

\* What follows c.Next(): a 2xx is remembered, unless storage.Set fails,
\* which is ignored.  Then the client has its answer.
Finish(p, set) ==
  LET k == req[p].key
      ok == Success(req[p].status)
  IN /\ Goto(p, "store", "idle")
     /\ req' = [req EXCEPT ![p] = Blank]
     /\ cache' = IF ok /\ set THEN [cache EXCEPT ![k] = req[p].status] ELSE cache
     /\ faulty' = IF ok /\ ~set THEN faulty \cup {k} ELSE faulty
     /\ answered' = IF ok THEN answered \cup {k} ELSE answered
     /\ UNCHANGED <<table, created, touched>>

\* The entry reaches its time to live.
Expire(k) ==
  /\ cache[k] # None
  /\ cache' = [cache EXCEPT ![k] = None]
  /\ faulty' = faulty \cup {k}
  /\ UNCHANGED <<table, pc, req, created, answered, touched>>

-----------------------------------------------------------------------------
(***************************************************************************)
(* Create and BulkCreate.                                                  *)
(***************************************************************************)
CheckCode(p, code) ==
  /\ pc[p] = "check" /\ code \in req[p].left
  /\ IF ExistsByCode(code)
     THEN Respond(p, "exists")
     ELSE /\ req' = [req EXCEPT ![p].left = @ \ {code}]
          /\ pc' = IF req[p].left = {code} THEN [pc EXCEPT ![p] = "insert"] ELSE pc
  /\ UNCHANGED <<table, cache, history>>

InsertFails(p) ==
  /\ pc[p] = "insert"
  /\ \E c \in req[p].batch : HoldersOf(c) # {}
  /\ Respond(p, "duplicateKey")
  /\ UNCHANGED <<table, cache, history>>

\* One INSERT for all the codes of the batch, into new rows.  The answer of
\* PostgreSQL can be lost after it has committed.
Insert(p, status) ==
  /\ pc[p] = "insert"
  /\ \A c \in req[p].batch : HoldersOf(c) = {}
  /\ \E place \in [req[p].batch -> FreeIds] :
       /\ \A c, d \in req[p].batch : place[c] = place[d] => c = d
       /\ LET at(i) == CHOOSE c \in req[p].batch : place[c] = i
              new == {place[c] : c \in req[p].batch}
          IN Write(new, [i \in new |-> [code |-> at(i), deleted |-> FALSE]])
  /\ created' = created \cup ({req[p].key} \ {None})
  /\ Respond(p, status)
  /\ UNCHANGED <<storage, cache, answered, faulty>>

-----------------------------------------------------------------------------
(***************************************************************************)
(* Update and Delete: the row is found by the use case, and loaded again   *)
(* by the repository, which writes back every column of what it loaded.    *)
(***************************************************************************)
NotFound(p) ==
  /\ pc[p] \in {"find", "load"}
  /\ ~Live(req[p].id)
  /\ Respond(p, "notFound")
  /\ UNCHANGED <<table, cache, history>>

\* A mistake to be noticed: the new code is left to the index.
FindUnchecked(p) ==
  /\ pc[p] = "find" /\ Live(req[p].id)
  /\ Goto(p, "find", "load")
  /\ UNCHANGED <<table, cache, req, history>>

\* The code that was sent is compared as it was sent: one that is written in
\* another form counts as a new code.
Find(p) ==
  /\ pc[p] = "find" /\ Live(req[p].id)
  /\ Goto(p, "find", IF req[p].kind = "update" /\ \/ ~req[p].exact
                                                  \/ req[p].batch # {rows[req[p].id].code}
                     THEN "checkOther" ELSE "load")
  /\ UNCHANGED <<table, cache, req, history>>

CheckOther(p) ==
  /\ pc[p] = "checkOther"
  /\ IF \E c \in req[p].batch : ExistsByCode(c)
     THEN Respond(p, "exists")
     ELSE pc' = [pc EXCEPT ![p] = "load"] /\ UNCHANGED req
  /\ UNCHANGED <<table, cache, history>>

Load(p) ==
  /\ Goto(p, "load", "save")
  /\ Live(req[p].id)
  /\ req' = [req EXCEPT ![p].old = rows[req[p].id].code]
  /\ UNCHANGED <<table, cache, history>>

\* The code that Save writes: that of the request, or the one it loaded.
CodeToSave(p) ==
  IF req[p].kind = "update" THEN CHOOSE c \in req[p].batch : TRUE ELSE req[p].old

SaveFails(p) ==
  /\ pc[p] = "save"
  /\ HoldersOf(CodeToSave(p)) \ {req[p].id} # {}
  /\ Respond(p, "duplicateKey")
  /\ UNCHANGED <<table, cache, history>>

\* UPDATE bars SET every column WHERE id: the row was live when it was
\* loaded, so an update writes NULL to deleted_at.  Here too the answer of
\* PostgreSQL can be lost.
Save(p, status) ==
  /\ pc[p] = "save"
  /\ HoldersOf(CodeToSave(p)) \subseteq {req[p].id}
  /\ Write({req[p].id}, [i \in {req[p].id} |->
               [code |-> CodeToSave(p), deleted |-> req[p].kind = "delete"]])
  /\ Respond(p, status)
  /\ UNCHANGED <<storage, cache, created, answered, faulty>>

\* PostgreSQL does not execute the statement.
StatementFails(p) ==
  /\ pc[p] \in {"check", "insert", "find", "checkOther", "load", "save"}
  /\ Respond(p, "error")
  /\ UNCHANGED <<table, cache, history>>

\* The server dies: nobody gets an answer.
Crash ==
  /\ \E p \in Requests : pc[p] # "idle"
  /\ pc' = [p \in Requests |-> "idle"]
  /\ req' = [p \in Requests |-> Blank]
  /\ UNCHANGED <<table, cache, history>>

Next ==
  \/ \E p \in Requests :
       \/ \E k \in Keys : PostWithKey(p, k)
       \/ \E c \in Codes : Post(p, c)
       \/ \E codes \in (SUBSET Codes) \ {{}} : BulkCreate(p, codes)
       \/ \E i \in Ids : Remove(p, i) \/ \E c \in Codes, e \in BOOLEAN : Put(p, i, c, e)
       \/ Replay(p) \/ PassOn(p) \/ LookupFails(p)
       \/ \E set \in BOOLEAN : Finish(p, set)
       \/ \E c \in Codes : CheckCode(p, c)
       \/ Insert(p, "created") \/ Insert(p, "error") \/ InsertFails(p)
       \/ NotFound(p) \/ Find(p) \/ CheckOther(p) \/ Load(p)
       \/ Save(p, "ok") \/ Save(p, "error") \/ SaveFails(p) \/ StatementFails(p)
  \/ \E k \in Keys : Expire(k)
  \/ Crash

Spec == Init /\ [][Next]_vars

-----------------------------------------------------------------------------
(***************************************************************************)
(* Properties.                                                             *)
(***************************************************************************)
\* The types of the variables; a slot is blank between two requests, and a
\* request reaches the storage of the middleware only when there is one.
TypeOK ==
  /\ storage \in BOOLEAN
  /\ rows \in [Ids -> [code : Codes \cup {None}, deleted : BOOLEAN]]
  /\ cache \in [Keys -> Statuses \cup {None}]
  /\ pc \in [Requests -> PC]
  /\ req \in [Requests -> RequestRecord]
  /\ created \subseteq Keys /\ answered \subseteq Keys /\ faulty \subseteq Keys
  /\ touched \in [Requests -> SUBSET Ids]
  /\ \A p \in Requests : /\ pc[p] = "idle" => req[p] = Blank
                        /\ pc[p] \in {"lookup", "store"} => storage /\ req[p].key # None

\* A code belongs to one row for ever, deleted rows included: what keeps two
\* requests that have both found a code free from using it twice is the
\* UNIQUE index, on the insert and on the Save of an update or a deletion.
CodesAreUnique ==
  \A i, j \in Ids : Exists(i) /\ rows[i].code = rows[j].code => i = j

\* What the idempotency middleware would replay is an answer that was given:
\* the remembered status is a success, and rows were inserted under the key.
ReplayIsTrue ==
  \A k \in Keys : cache[k] # None => Success(cache[k]) /\ k \in created

\* A client that has received a 2xx and sends the request again creates
\* nothing, whatever has become of the first row, as long as Redis is
\* enabled and has neither failed for this key nor let it expire.
RetryCreatesNothing ==
  [][\A p \in Requests :
       pc[p] = "insert" /\ pc'[p] # "insert" /\ rows' # rows /\ req[p].owed /\ storage
       => req[p].key \in faulty]_vars

\* A statement runs into the UNIQUE index, which the client sees as a 500 and
\* not as the 409 of the check, only when a deleted row holds the code or
\* when another request wrote the row that holds it in the meantime.
ConflictsAreExplained ==
  [][\A p \in Requests : InsertFails(p) \/ SaveFails(p) =>
       LET wanted == IF pc[p] = "insert" THEN req[p].batch ELSE {CodeToSave(p)}
       IN \A c \in wanted : \A i \in HoldersOf(c) \ {req[p].id} :
            rows[i].deleted \/ i \in touched[p]]_vars

\* A deleted row comes back only through an update that was in progress when
\* the row was deleted, never through one that arrived after the deletion.
ReturnNeedsOverlap ==
  [][\A i \in Ids : rows[i].deleted /\ ~rows'[i].deleted =>
       \E p \in Requests : /\ pc[p] = "save" /\ pc'[p] # "save"
                           /\ req[p].id = i /\ i \in touched[p]]_vars
=============================================================================
