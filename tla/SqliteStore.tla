------------------------------ MODULE SqliteStore ------------------------------
(***************************************************************************)
(* SqliteTokenStore (crates/l402-sqlite): processes that open one database *)
(* file, migrate it, and put, get, remove, clear and clean up tokens in it *)
(* until they crash.                                                       *)
(*                                                                         *)
(* A call is handed to a blocking thread and its statement runs later, at  *)
(* one moment, under the lock of the connection and of the file.  Dropping *)
(* the future of a call changes nothing: it stays queued, and the next     *)
(* calls of that task may run before it, which is what two callers do.  A  *)
(* put reads the clock for expires_at when it is made, the statements read *)
(* it when they run.  Time is in seconds and never runs back.              *)
(***************************************************************************)
EXTENDS Integers

CONSTANTS
    Processes,
    Callers,    \* calls that may be under way at a time
    Urls,
    Tokens,
    None,       \* Option::None, and NULL
    Ttls,       \* the seconds given to with_ttl, or None, by a store or a clone of it
    MaxI64,     \* i64::MAX
    MaxTime     \* bound on the clock

ASSUME SqliteAssumption ==
    /\ None \notin Int \cup Tokens \cup Urls
    /\ MaxI64 \in Nat
    /\ MaxTime \in Nat /\ MaxTime < MaxI64
    /\ Ttls \subseteq 0 .. MaxI64 \cup {None}

VARIABLES
    now,        \* unix_now()
    file,       \* the database: its version, table, index and rows
    conn,       \* per process: closed, the migration step it is at, or open
    call,       \* per caller: the call that is queued, or None
    answer,     \* what the last get to run found, with its url, or None
    latest      \* history, per url: the row of the put that ran last, if no remove
                \* or clear ran since; else None

vars == <<now, file, conn, call, answer, latest>>

\* A row has its token and expires_at; born and ttl are history.
Row == [token : Tokens, expires : Int \cup {None}, born : Nat, ttl : Nat \cup {None}]
NoRows == [u \in {} |-> None]

ASSUME NoneIsNoRow == None \notin Row

Call == [process : Processes, op : {"get", "remove"}, url : Urls]
        \cup [process : Processes, op : {"clear", "cleanup"}]
        \cup [process : Processes, op : {"put"}, url : Urls, row : Row]

Init ==
    /\ now = 0
    /\ file = [version |-> 0, table |-> FALSE, index |-> FALSE, rows |-> NoRows]
    /\ conn = [p \in Processes |-> "closed"]
    /\ call = [c \in Callers |-> None]
    /\ answer = None
    /\ latest = [u \in Urls |-> None]

Tick ==
    /\ now < MaxTime
    /\ now' = now + 1
    /\ UNCHANGED <<file, conn, call, answer, latest>>

-----------------------------------------------------------------------------
(* Opening the file.  The statements of the migration are separate         *)
(* transactions: others may open the file, or the process end, in between. *)

Goto(p, step) == conn' = [conn EXCEPT ![p] = step]

Open(p) ==
    /\ conn[p] = "closed"
    /\ Goto(p, IF file.version < 1 THEN "create_table" ELSE "open")
    /\ UNCHANGED <<now, file, call, answer, latest>>

\* Mutants: the table is made anew; the version is set first.
CreateTableAnew(p) ==
    /\ conn[p] = "create_table"
    /\ file' = [file EXCEPT !.table = TRUE, !.rows = NoRows]
    /\ Goto(p, "create_index")
    /\ UNCHANGED <<now, call, answer, latest>>

CreateTableVersioned(p) ==
    /\ conn[p] = "create_table"
    /\ file' = [file EXCEPT !.table = TRUE, !.version = 1]
    /\ Goto(p, "create_index")
    /\ UNCHANGED <<now, call, answer, latest>>

CreateTable(p) ==
    /\ conn[p] = "create_table"
    /\ file' = [file EXCEPT !.table = TRUE]
    /\ Goto(p, "create_index")
    /\ UNCHANGED <<now, call, answer, latest>>

CreateIndex(p) ==
    /\ conn[p] = "create_index"
    /\ file' = [file EXCEPT !.index = TRUE]
    /\ Goto(p, "set_version")
    /\ UNCHANGED <<now, call, answer, latest>>

SetVersion(p) ==
    /\ conn[p] = "set_version"
    /\ file' = [file EXCEPT !.version = 1]
    /\ Goto(p, "open")
    /\ UNCHANGED <<now, call, answer, latest>>

\* Mutant: queued calls outlive the store.
CloseOnly(p) ==
    /\ conn[p] # "closed"
    /\ Goto(p, "closed")
    /\ UNCHANGED <<now, file, call, answer, latest>>

\* A crash, or a statement of the migration that fails: calls that have not
\* run are lost.
Close(p) ==
    /\ conn[p] # "closed"
    /\ Goto(p, "closed")
    /\ call' = [c \in Callers |->
                  IF call[c] # None /\ call[c].process = p THEN None ELSE call[c]]
    /\ UNCHANGED <<now, file, answer, latest>>

-----------------------------------------------------------------------------
(* Calls.                                                                  *)

Queue(c, p, request) ==
    /\ conn[p] = "open"
    /\ call[c] = None
    /\ call' = [call EXCEPT ![c] = request]
    /\ UNCHANGED <<now, file, conn, answer, latest>>

\* i64 arithmetic as a release build does it; with overflow checks the put
\* panics here and makes no call.
Wrapped(n) == IF n > MaxI64 THEN n - 2 * (MaxI64 + 1) ELSE n

ExpiresAt(ttl) == IF ttl = None THEN None ELSE Wrapped(now + ttl)

MakePut(c, p, url, token, ttl) ==
    Queue(c, p, [process |-> p, op |-> "put", url |-> url,
                 row |-> [token |-> token, expires |-> ExpiresAt(ttl),
                          born |-> now, ttl |-> ttl]])

MakeOnUrl(c, p, op, url) == Queue(c, p, [process |-> p, op |-> op, url |-> url])
MakeOnAll(c, p, op) == Queue(c, p, [process |-> p, op |-> op])

Expired(row) == row.expires # None /\ row.expires <= now

\* The rows a statement leaves.  Mutant: INSERT OR IGNORE.
InsertedIfNew(url, row) ==
    [u \in DOMAIN file.rows \cup {url} |->
        IF u \in DOMAIN file.rows THEN file.rows[u] ELSE row]
Upserted(url, row) ==
    [u \in DOMAIN file.rows \cup {url} |-> IF u = url THEN row ELSE file.rows[u]]
RowsOf(urls) == [u \in urls |-> file.rows[u]]

RowsAfter(request) ==
    CASE request.op = "put" -> Upserted(request.url, request.row)
      [] request.op = "remove" -> RowsOf(DOMAIN file.rows \ {request.url})
      [] request.op = "clear" -> NoRows
      [] request.op = "cleanup" -> RowsOf({u \in DOMAIN file.rows : ~Expired(file.rows[u])})
      [] request.op = "get" -> file.rows

Found(url) ==
    IF url \in DOMAIN file.rows /\ ~Expired(file.rows[url])
    THEN file.rows[url].token ELSE None

\* What latest says once a statement ran, whatever it did to the rows.
LatestAfter(request) ==
    CASE request.op = "put" -> [latest EXCEPT ![request.url] = request.row]
      [] request.op = "remove" -> [latest EXCEPT ![request.url] = None]
      [] request.op = "clear" -> [u \in Urls |-> None]
      [] request.op \in {"get", "cleanup"} -> latest

\* A call whose statement runs.
Run(c) ==
    /\ call[c] # None
    /\ file' = [file EXCEPT !.rows = RowsAfter(call[c])]
    /\ latest' = LatestAfter(call[c])
    /\ answer' = IF call[c].op = "get" THEN [url |-> call[c].url, token |-> Found(call[c].url)]
                 ELSE answer
    /\ call' = [call EXCEPT ![c] = None]
    /\ UNCHANGED <<now, conn>>

\* A call that ends in ClientError::Backend: the file is busy, the statement
\* fails, the mutex is poisoned or the runtime ends.
Fail(c) ==
    /\ call[c] # None
    /\ call' = [call EXCEPT ![c] = None]
    /\ UNCHANGED <<now, file, conn, answer, latest>>

Make(c, p) ==
    \/ \E url \in Urls, token \in Tokens, ttl \in Ttls : MakePut(c, p, url, token, ttl)
    \/ \E url \in Urls, op \in {"get", "remove"} : MakeOnUrl(c, p, op, url)
    \/ \E op \in {"clear", "cleanup"} : MakeOnAll(c, p, op)

Next ==
    \/ Tick
    \/ \E p \in Processes :
          Open(p) \/ CreateTable(p) \/ CreateIndex(p) \/ SetVersion(p) \/ Close(p)
    \/ \E c \in Callers, p \in Processes : Make(c, p)
    \/ \E c \in Callers : Run(c) \/ Fail(c)

Spec == Init /\ [][Next]_vars

-----------------------------------------------------------------------------
(* Properties.                                                             *)

\* The types; a queued call is of a process that has the file open.
TypeOK ==
    /\ now \in 0 .. MaxTime
    /\ file.version \in {0, 1} /\ {file.table, file.index} \subseteq BOOLEAN
    /\ DOMAIN file.rows \subseteq Urls
    /\ \A u \in DOMAIN file.rows : file.rows[u] \in Row
    /\ conn \in [Processes -> {"closed", "create_table", "create_index", "set_version", "open"}]
    /\ \A c \in Callers : call[c] # None => call[c] \in Call /\ conn[call[c].process] = "open"
    /\ answer \in [url : Urls, token : Tokens \cup {None}] \cup {None}
    /\ latest \in [Urls -> Row \cup {None}]

\* store.rs:57, "Runs any pending schema migrations": wherever a migration
\* was cut off, and whoever ran it at the same time, a file that says version 1
\* has the table and the index, and so has the file of an open store.
SchemaInPlace ==
    file.version = 1 \/ (\E p \in Processes : conn[p] = "open") => file.table /\ file.index

\* The token of a row may be served: it was put without a TTL, or for a time
\* that i64 can hold and that has not passed.
Fresh(row) == row.ttl = None \/ (row.born + row.ttl <= MaxI64 /\ now < row.born + row.ttl)

\* Whether a call that changes the row of a url runs in this step.
Changes(url) ==
    \E c \in Callers :
        /\ Run(c)
        /\ \/ call[c].op = "clear"
           \/ call[c].op \in {"put", "remove"} /\ call[c].url = url

\* A token that may still be served leaves the file only by a put or remove
\* of its url or a clear that runs: never by a cleanup, a crash, a restart or
\* a migration, nor by a call that fails or is lost (store.rs:18, "so they
\* survive process restarts").
FreshRowsKept ==
    [][\A u \in DOMAIN file.rows :
          Fresh(file.rows[u]) /\ (u \in DOMAIN file.rows' => file.rows'[u] # file.rows[u])
          => Changes(u)]_vars

\* The store is a token store whose tokens expire.  A get by any process, over
\* crashes, restarts and migrations, returns the token of the put that ran last
\* (latest, a record of the calls and not of the rows), from that put to the
\* end of its TTL as true integers have it, and nothing afterwards.  Last is
\* the order in which the statements run: a call whose future was dropped may
\* run after calls made later.
Port == INSTANCE TokenStore WITH
    Expires <- TRUE,
    last <- [u \in Urls |->
               IF latest[u] # None /\ Fresh(latest[u]) THEN latest[u].token ELSE None]

ServesLastToken == Port!Spec
===============================================================================
