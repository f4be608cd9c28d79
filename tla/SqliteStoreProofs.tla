-------------------------- MODULE SqliteStoreProofs --------------------------
(***************************************************************************)
(* Theorems about the SQLite store, for any number of processes and calls, *)
(* any TTLs, and a clock that ends before i64 does.                        *)
(***************************************************************************)
EXTENDS SqliteStore, TLAPS

-----------------------------------------------------------------------------
(* The migration.  A process that is past a statement has its result in    *)
(* the file, since no step of another takes it back.                       *)

FileShape ==
    file = [version |-> file.version, table |-> file.table,
            index |-> file.index, rows |-> file.rows]

Steps == {"closed", "create_table", "create_index", "set_version", "open"}

Migrating ==
    /\ file.version \in {0, 1}
    /\ conn \in [Processes -> Steps]
    /\ \A p \in Processes : conn[p] \in {"create_index", "set_version"} => file.table
    /\ \A p \in Processes : conn[p] = "set_version" => file.index

Migrated == FileShape /\ Migrating /\ SchemaInPlace

LEMMA InitMigrated == Init => Migrated
  BY DEF Init, Migrated, FileShape, Migrating, SchemaInPlace, Steps

\* Every step but those of the migration leaves the schema as it is.
LEMMA SchemaKept ==
    ASSUME Migrated, FileShape', conn' = conn,
           file'.version = file.version, file'.table = file.table, file'.index = file.index
    PROVE  Migrated'
  BY DEF Migrated, Migrating, SchemaInPlace

LEMMA RunKeepsSchema ==
    ASSUME FileShape, NEW c \in Callers, Run(c)
    PROVE  /\ FileShape' /\ conn' = conn
           /\ file'.version = file.version /\ file'.table = file.table
           /\ file'.index = file.index /\ file'.rows = RowsAfter(call[c])
<1> DEFINE rows == RowsAfter(call[c])
<1> HIDE DEF rows
<1>1. file' = [file EXCEPT !.rows = rows] /\ conn' = conn
  BY DEF Run, rows
<1>2. file' = [version |-> file.version, table |-> file.table,
               index |-> file.index, rows |-> rows]
  BY <1>1 DEF FileShape
<1> QED
  BY <1>1, <1>2 DEF FileShape, rows

LEMMA NextMigrated == Migrated /\ [Next]_vars => Migrated'
<1> SUFFICES ASSUME Migrated, [Next]_vars PROVE Migrated'
  OBVIOUS
<1>1. ASSUME NEW p \in Processes, Open(p) PROVE Migrated'
  BY <1>1 DEF Open, Goto, Migrated, FileShape, Migrating, SchemaInPlace, Steps
<1>2. ASSUME NEW p \in Processes, CreateTable(p) PROVE Migrated'
  <2>1. file' = [version |-> file.version, table |-> TRUE, index |-> file.index, rows |-> file.rows]
    BY <1>2 DEF CreateTable, Migrated, FileShape
  <2> QED
    BY <1>2, <2>1 DEF CreateTable, Goto, Migrated, FileShape, Migrating, SchemaInPlace, Steps
<1>3. ASSUME NEW p \in Processes, CreateIndex(p) PROVE Migrated'
  <2>1. file' = [version |-> file.version, table |-> file.table, index |-> TRUE, rows |-> file.rows]
    BY <1>3 DEF CreateIndex, Migrated, FileShape
  <2> QED
    BY <1>3, <2>1 DEF CreateIndex, Goto, Migrated, FileShape, Migrating, SchemaInPlace, Steps
<1>4. ASSUME NEW p \in Processes, SetVersion(p) PROVE Migrated'
  <2>1. file' = [version |-> 1, table |-> file.table, index |-> file.index, rows |-> file.rows]
    BY <1>4 DEF SetVersion, Migrated, FileShape
  <2>2. file.table /\ file.index
    BY <1>4 DEF SetVersion, Migrated, Migrating
  <2> QED
    BY <1>4, <2>1, <2>2 DEF SetVersion, Goto, Migrated, FileShape, Migrating, SchemaInPlace, Steps
<1>5. ASSUME NEW p \in Processes, Close(p) PROVE Migrated'
  BY <1>5 DEF Close, Goto, Migrated, FileShape, Migrating, SchemaInPlace, Steps
<1>6. ASSUME NEW c \in Callers, Run(c) PROVE Migrated'
  BY <1>6, RunKeepsSchema, SchemaKept DEF Migrated
<1>7. ASSUME UNCHANGED <<file, conn>> PROVE Migrated'
  BY <1>7, SchemaKept DEF Migrated, FileShape
<1>8. ASSUME NEW c \in Callers, NEW p \in Processes, Make(c, p) PROVE UNCHANGED <<file, conn>>
  BY <1>8 DEF Make, MakePut, MakeOnUrl, MakeOnAll, Queue
<1> QED
  BY <1>1, <1>2, <1>3, <1>4, <1>5, <1>6, <1>7, <1>8 DEF Next, Tick, Fail, vars

\* The file of an open store, and any file that says version 1, has the table
\* and the index, wherever migrations were cut off or run side by side.
THEOREM SchemaAlwaysInPlace == Spec => []SchemaInPlace
<1>1. Migrated => SchemaInPlace
  BY DEF Migrated
<1> QED
  BY <1>1, InitMigrated, NextMigrated, PTL DEF Spec

-----------------------------------------------------------------------------
(* Ages.  A row's expires_at is that of the put that wrote it, also while  *)
(* the put is queued; so a row is expired exactly when it is not fresh,    *)
(* whether or not its sum wrapped.                                         *)

IsRow(row) ==
    /\ row # None
    /\ row.token \in Tokens
    /\ row.born \in 0 .. MaxTime
    /\ row.ttl \in Ttls
    /\ row.expires = IF row.ttl = None THEN None ELSE Wrapped(row.born + row.ttl)

AreRows(rows) == DOMAIN rows \subseteq Urls /\ \A u \in DOMAIN rows : IsRow(rows[u])

IsCall(request) ==
    /\ request.op \in {"put", "get", "remove", "clear", "cleanup"}
    /\ request.op \in {"put", "get", "remove"} => request.url \in Urls
    /\ request.op = "put" => IsRow(request.row)

Aged ==
    /\ now \in 0 .. MaxTime
    /\ AreRows(file.rows)
    /\ call = [c \in Callers |-> call[c]]
    /\ \A c \in Callers : call[c] # None => IsCall(call[c])

LEMMA FreshIsUnexpired ==
    ASSUME NEW row, IsRow(row), now \in 0 .. MaxTime
    PROVE  Fresh(row) <=> ~Expired(row)
<1> USE SqliteAssumption
<1>1. CASE row.ttl = None
  BY <1>1 DEF IsRow, Fresh, Expired
<1>2. CASE row.ttl # None
  <2>1. row.ttl \in 0 .. MaxI64 /\ row.born \in 0 .. MaxTime
    BY <1>2 DEF IsRow
  <2>2. row.expires = Wrapped(row.born + row.ttl) /\ row.expires \in Int
    BY <1>2, <2>1 DEF IsRow, Wrapped
  <2>3. row.expires # None
    BY <2>2
  <2> QED
    BY <1>2, <2>1, <2>2, <2>3 DEF Fresh, Expired, Wrapped
<1> QED
  BY <1>1, <1>2

LEMMA RowsStayRows ==
    ASSUME AreRows(file.rows), NEW request, IsCall(request)
    PROVE  AreRows(RowsAfter(request))
<1>1. CASE request.op = "put"
  BY <1>1 DEF RowsAfter, Upserted, AreRows, IsCall
<1>2. CASE request.op = "remove"
  BY <1>2 DEF RowsAfter, RowsOf, AreRows
<1>3. CASE request.op = "clear"
  BY <1>3 DEF RowsAfter, NoRows, AreRows
<1>4. CASE request.op = "cleanup"
  BY <1>4 DEF RowsAfter, RowsOf, AreRows
<1>5. CASE request.op = "get"
  BY <1>5 DEF RowsAfter
<1> QED
  BY <1>1, <1>2, <1>3, <1>4, <1>5 DEF IsCall

\* Only a call that runs touches the rows.
LEMMA RowsKept ==
    ASSUME FileShape, [Next]_vars, \A c \in Callers : ~Run(c)
    PROVE  file'.rows = file.rows
<1>1. ASSUME NEW p \in Processes, Open(p) \/ Close(p) PROVE file' = file
  BY <1>1 DEF Open, Close
<1>2. ASSUME NEW p \in Processes, CreateTable(p) \/ CreateIndex(p) \/ SetVersion(p)
      PROVE  file'.rows = file.rows
  BY <1>2 DEF CreateTable, CreateIndex, SetVersion, FileShape
<1>3. ASSUME NEW c \in Callers, NEW p \in Processes, Make(c, p) PROVE file' = file
  BY <1>3 DEF Make, MakePut, MakeOnUrl, MakeOnAll, Queue
<1> QED
  BY <1>1, <1>2, <1>3 DEF Next, Tick, Fail, vars

LEMMA InitAged == Init => Aged
  BY SqliteAssumption DEF Init, Aged, AreRows, NoRows

LEMMA QueuedAged ==
    ASSUME Aged, NEW c \in Callers, NEW p \in Processes, NEW request, IsCall(request),
           Queue(c, p, request)
    PROVE  Aged'
<1>1. call' = [call EXCEPT ![c] = request] /\ UNCHANGED <<now, file>>
  BY DEF Queue
<1>2. \A d \in Callers : call'[d] = IF d = c THEN request ELSE call[d]
  BY <1>1 DEF Aged
<1>3. AreRows(file.rows)'
  BY <1>1 DEF Aged
<1>4. call' = [d \in Callers |-> call'[d]]
  BY <1>1 DEF Aged
<1>5. \A d \in Callers : call'[d] # None => IsCall(call'[d])
  BY <1>2 DEF Aged
<1> QED
  BY <1>1, <1>3, <1>4, <1>5 DEF Aged, IsCall, IsRow

LEMMA NextAged == FileShape /\ Aged /\ [Next]_vars => Aged'
<1> SUFFICES ASSUME FileShape, Aged, [Next]_vars PROVE Aged'
  OBVIOUS
<1>1. ASSUME NEW c \in Callers, Run(c) PROVE Aged'
  <2>1. AreRows(file'.rows)
    <3>1. IsCall(call[c])
      BY <1>1 DEF Run, Aged
    <3> QED
      BY <1>1, <3>1, RowsStayRows, RunKeepsSchema DEF Aged
  <2>2. call' = [call EXCEPT ![c] = None] /\ now' = now
    BY <1>1 DEF Run
  <2> QED
    BY <2>1, <2>2 DEF Aged, AreRows, IsCall, IsRow
<1>2. ASSUME NEW c \in Callers, NEW p \in Processes, NEW url \in Urls, NEW token \in Tokens,
             NEW ttl \in Ttls, MakePut(c, p, url, token, ttl)
      PROVE  Aged'
  <2> DEFINE row == [token |-> token, expires |-> ExpiresAt(ttl), born |-> now, ttl |-> ttl]
             request == [process |-> p, op |-> "put", url |-> url, row |-> row]
  <2>1. IsRow(row)
    <3>1. now \in Nat /\ now \in 0 .. MaxTime /\ ttl \in Nat \cup {None}
      BY SqliteAssumption DEF Aged
    <3>2. ExpiresAt(ttl) \in Int \cup {None}
      BY <3>1, SqliteAssumption DEF ExpiresAt, Wrapped
    <3>3. row \in Row
      BY <3>1, <3>2 DEF Row
    <3> QED
      BY <3>1, <3>3, NoneIsNoRow DEF IsRow, ExpiresAt
  <2>2. IsCall(request)
    BY <2>1 DEF IsCall
  <2>3. Queue(c, p, request)
    BY <1>2 DEF MakePut
  <2> HIDE DEF request
  <2> QED
    BY <2>2, <2>3, QueuedAged
<1>3. ASSUME NEW c \in Callers, NEW p \in Processes, NEW url \in Urls,
             NEW op \in {"get", "remove"}, MakeOnUrl(c, p, op, url)
      PROVE  Aged'
  <2> DEFINE request == [process |-> p, op |-> op, url |-> url]
  <2>1. IsCall(request)
    BY DEF IsCall
  <2>2. Queue(c, p, request)
    BY <1>3 DEF MakeOnUrl
  <2> HIDE DEF request
  <2> QED
    BY <2>1, <2>2, QueuedAged
<1>4. ASSUME NEW c \in Callers, NEW p \in Processes, NEW op \in {"clear", "cleanup"},
             MakeOnAll(c, p, op)
      PROVE  Aged'
  <2> DEFINE request == [process |-> p, op |-> op]
  <2>1. IsCall(request)
    BY DEF IsCall
  <2>2. Queue(c, p, request)
    BY <1>4 DEF MakeOnAll
  <2> HIDE DEF request
  <2> QED
    BY <2>1, <2>2, QueuedAged
<1>5. CASE Tick
  <2>1. now' \in 0 .. MaxTime /\ UNCHANGED <<file, call>>
    BY <1>5, SqliteAssumption DEF Tick, Aged
  <2> QED
    BY <2>1 DEF Aged, AreRows, IsCall, IsRow
<1>6. ASSUME UNCHANGED now, file'.rows = file.rows, call' = [c \in Callers |-> call'[c]],
             \A c \in Callers : call'[c] \in {call[c], None}
      PROVE  Aged'
  BY <1>6 DEF Aged, AreRows, IsCall, IsRow
<1>7. ASSUME NEW p \in Processes, Close(p) PROVE Aged'
  <2>1. /\ call' = [c \in Callers |-> IF call[c] # None /\ call[c].process = p
                                      THEN None ELSE call[c]]
        /\ UNCHANGED <<now, file>>
    BY <1>7 DEF Close
  <2> QED
    BY <1>6, <2>1
<1>8. ASSUME NEW c \in Callers, Fail(c) PROVE Aged'
  <2>1. call' = [call EXCEPT ![c] = None] /\ UNCHANGED <<now, file>>
    BY <1>8 DEF Fail
  <2> QED
    BY <1>6, <2>1 DEF Aged
<1>9. ASSUME NEW p \in Processes,
             Open(p) \/ CreateTable(p) \/ CreateIndex(p) \/ SetVersion(p)
      PROVE  Aged'
  <2>1. UNCHANGED <<now, call>> /\ file'.rows = file.rows
    BY <1>9 DEF Open, CreateTable, CreateIndex, SetVersion, FileShape
  <2> QED
    BY <1>6, <2>1 DEF Aged
<1>10. CASE UNCHANGED vars
  BY <1>6, <1>10 DEF vars, Aged
<1> QED
  BY <1>1, <1>2, <1>3, <1>4, <1>5, <1>7, <1>8, <1>9, <1>10 DEF Next, Make

-----------------------------------------------------------------------------
(* What ran.  A row is the one of the put that ran last for its url; where *)
(* such a put has no row, its token is no longer fresh.                    *)

Written ==
    /\ latest = [u \in Urls |-> latest[u]]
    /\ \A u \in Urls : latest[u] # None => IsRow(latest[u])
    /\ \A u \in DOMAIN file.rows : latest[u] = file.rows[u]
    /\ \A u \in Urls \ DOMAIN file.rows : latest[u] # None => ~Fresh(latest[u])

LEMMA InitWritten == Init => Written
  BY DEF Init, Written, NoRows

LEMMA RunWritten ==
    ASSUME FileShape, Aged, Written, NEW c \in Callers, Run(c)
    PROVE  Written'
<1> DEFINE request == call[c]
<1>1. IsCall(request) /\ now' = now /\ latest' = LatestAfter(request)
  BY DEF Run, Aged
<1>2. file'.rows = RowsAfter(request)
  BY RunKeepsSchema
<1>3. \A row : Fresh(row)' <=> Fresh(row)
  BY <1>1 DEF Fresh
<1>4. AreRows(file.rows) /\ now \in 0 .. MaxTime
  BY DEF Aged
<1> HIDE DEF request
<1>5. CASE request.op = "put"
  <2> DEFINE url == request.url
             row == request.row
  <2>1. url \in Urls /\ IsRow(row)
    BY <1>1, <1>5 DEF IsCall
  <2>2. file'.rows = Upserted(url, row) /\ latest' = [latest EXCEPT ![url] = row]
    BY <1>1, <1>2, <1>5 DEF RowsAfter, LatestAfter
  <2> HIDE DEF url, row
  <2> QED
    BY <1>3, <2>1, <2>2 DEF Written, Upserted, IsRow
<1>6. CASE request.op = "remove"
  <2>1. request.url \in Urls
    BY <1>1, <1>6 DEF IsCall
  <2>2. file'.rows = RowsOf(DOMAIN file.rows \ {request.url})
        /\ latest' = [latest EXCEPT ![request.url] = None]
    BY <1>1, <1>2, <1>6 DEF RowsAfter, LatestAfter
  <2> QED
    BY <1>3, <1>4, <2>1, <2>2 DEF Written, RowsOf, IsRow, AreRows
<1>7. CASE request.op = "clear"
  BY <1>1, <1>2, <1>7 DEF RowsAfter, LatestAfter, Written, NoRows
<1>8. CASE request.op = "cleanup"
  <2>1. file'.rows = RowsOf({u \in DOMAIN file.rows : ~Expired(file.rows[u])}) /\ latest' = latest
    BY <1>1, <1>2, <1>8 DEF RowsAfter, LatestAfter
  <2>2. \A u \in DOMAIN file.rows : Expired(file.rows[u]) => ~Fresh(file.rows[u])
    BY <1>4, FreshIsUnexpired DEF AreRows
  <2> QED
    BY <1>3, <2>1, <2>2 DEF Written, RowsOf, IsRow
<1>9. CASE request.op = "get"
  BY <1>1, <1>2, <1>3, <1>9 DEF RowsAfter, LatestAfter, Written, IsRow
<1> QED
  BY <1>1, <1>5, <1>6, <1>7, <1>8, <1>9 DEF IsCall

\* Once a token is too old it stays so.
FreshAt(row, time) ==
    row.ttl = None \/ (row.born + row.ttl <= MaxI64 /\ time < row.born + row.ttl)

LEMMA AgesOnly ==
    ASSUME NEW row, IsRow(row), NEW time \in Nat, FreshAt(row, time + 1)
    PROVE  FreshAt(row, time)
<1>1. row.ttl # None => row.ttl \in 0 .. MaxI64 /\ row.born \in 0 .. MaxTime
  BY SqliteAssumption DEF IsRow
<1> QED
  BY <1>1, SqliteAssumption DEF FreshAt

LEMMA TickAges ==
    ASSUME Aged, Written, Tick
    PROVE  \A u \in Urls : latest[u] # None /\ Fresh(latest[u])' => Fresh(latest[u])
<1> SUFFICES ASSUME NEW u \in Urls, latest[u] # None, Fresh(latest[u])'
             PROVE  Fresh(latest[u])
  OBVIOUS
<1> DEFINE row == latest[u]
<1>1. latest' = latest /\ now \in Nat /\ now' = now + 1 /\ IsRow(row)
  BY DEF Tick, Aged, Written
<1>2. FreshAt(row, now + 1)
  BY <1>1 DEF Fresh, FreshAt
<1> HIDE DEF row
<1>3. FreshAt(row, now)
  BY <1>1, <1>2, AgesOnly
<1> QED
  BY <1>3 DEF FreshAt, Fresh, row

LEMMA NextWritten == FileShape /\ Aged /\ Written /\ [Next]_vars => Written'
<1> SUFFICES ASSUME FileShape, Aged, Written, [Next]_vars PROVE Written'
  OBVIOUS
<1>1. ASSUME NEW c \in Callers, Run(c) PROVE Written'
  BY <1>1, RunWritten
<1>2. CASE Tick
  <2>1. file' = file /\ latest' = latest
    BY <1>2 DEF Tick
  <2>2. \A u \in Urls : latest[u] # None /\ Fresh(latest[u])' => Fresh(latest[u])
    BY <1>2, TickAges
  <2> QED
    BY <2>1, <2>2 DEF Written, IsRow
<1>3. CASE ~Tick /\ \A c \in Callers : ~Run(c)
  <2>1. file'.rows = file.rows
    BY <1>3, RowsKept
  <2>2. now' = now /\ latest' = latest
    BY <1>3 DEF Next, Open, CreateTable, CreateIndex, SetVersion, Close, Make, MakePut,
                MakeOnUrl, MakeOnAll, Queue, Fail, vars
  <2> QED
    BY <2>1, <2>2 DEF Written, IsRow, Fresh
<1> QED
  BY <1>1, <1>2, <1>3

Safe == Migrated /\ Aged /\ Written

LEMMA AlwaysSafe == Spec => []Safe
<1>1. Init => Safe
  BY InitMigrated, InitAged, InitWritten DEF Safe
<1>2. Safe /\ [Next]_vars => Safe'
  BY NextMigrated, NextAged, NextWritten DEF Safe, Migrated
<1> QED
  BY <1>1, <1>2, PTL DEF Spec

-----------------------------------------------------------------------------
(* What a call that runs does to the rows that may still be served.        *)

KeptOrCalledFor ==
    \A u \in DOMAIN file.rows :
        Fresh(file.rows[u]) /\ (u \in DOMAIN file.rows' => file.rows'[u] # file.rows[u])
        => Changes(u)

LEMMA StepKeepsFresh == Safe /\ [Next]_vars => KeptOrCalledFor
<1> SUFFICES ASSUME Safe, [Next]_vars PROVE KeptOrCalledFor
  OBVIOUS
<1>1. CASE \A c \in Callers : ~Run(c)
  BY <1>1, RowsKept DEF Safe, Migrated, KeptOrCalledFor
<1>2. ASSUME NEW c \in Callers, Run(c) PROVE KeptOrCalledFor
  <2> SUFFICES ASSUME NEW u \in DOMAIN file.rows, Fresh(file.rows[u]), ~Changes(u)
               PROVE  u \in DOMAIN file'.rows /\ file'.rows[u] = file.rows[u]
    BY DEF KeptOrCalledFor
  <2>1. file'.rows = RowsAfter(call[c])
    BY <1>2, RunKeepsSchema DEF Safe, Migrated
  <2>2. call[c] # None /\ call'[c] = None /\ IsCall(call[c])
    BY <1>2 DEF Run, Safe, Aged
  <2>3. ~Expired(file.rows[u])
    BY FreshIsUnexpired DEF Safe, Aged, AreRows
  <2>4. call[c].op # "clear" /\ (call[c].op \in {"put", "remove"} => call[c].url # u)
    BY <1>2 DEF Changes
  <2>5. CASE call[c].op = "put"
    BY <2>1, <2>4, <2>5 DEF RowsAfter, Upserted
  <2>6. CASE call[c].op = "remove"
    BY <2>1, <2>4, <2>6 DEF RowsAfter, RowsOf
  <2>7. CASE call[c].op = "cleanup"
    BY <2>1, <2>3, <2>7 DEF RowsAfter, RowsOf
  <2>8. CASE call[c].op = "get"
    BY <2>1, <2>8 DEF RowsAfter
  <2> QED
    BY <2>2, <2>4, <2>5, <2>6, <2>7, <2>8 DEF IsCall
<1> QED
  BY <1>1, <1>2

\* A token that may still be served leaves the file only by a put or remove of
\* its url or a clear that runs: no cleanup, crash, restart or migration takes it,
\* and no call that fails.
THEOREM FreshRowsAlwaysKept == Spec => FreshRowsKept
<1>1. Safe /\ [Next]_vars => [KeptOrCalledFor]_vars
  BY StepKeepsFresh
<1> QED
  BY <1>1, AlwaysSafe, PTL DEF Spec, FreshRowsKept, KeptOrCalledFor

-----------------------------------------------------------------------------
(* The refinement of TokenStore: the last token of a url is the one of the *)
(* put that ran last while that is fresh, which is the one of its row.     *)

Last == [u \in Urls |->
           IF latest[u] # None /\ Fresh(latest[u]) THEN latest[u].token ELSE None]

LEMMA FoundIsLast ==
    ASSUME Safe, NEW url \in Urls
    PROVE  Found(url) = Last[url]
<1>1. \A u \in DOMAIN file.rows : u \in Urls /\ IsRow(file.rows[u]) /\ latest[u] = file.rows[u]
  BY DEF Safe, Aged, AreRows, Written
<1>2. CASE url \in DOMAIN file.rows
  BY <1>1, <1>2, FreshIsUnexpired DEF Found, Last, Safe, Aged, IsRow
<1>3. CASE url \notin DOMAIN file.rows
  BY <1>3 DEF Found, Last, Safe, Written
<1> QED
  BY <1>2, <1>3

LEMMA InitRefines == Init => Port!Init
  BY DEF Init, NoRows, Port!Init

LEMMA RunRefines ==
    ASSUME Safe, NEW c \in Callers, Run(c)
    PROVE  [Port!Next]_Port!vars
<1> DEFINE request == call[c]
<1>1. IsCall(request) /\ now' = now /\ latest' = LatestAfter(request)
  BY DEF Run, Safe, Aged
<1>2. request.op # "get" => answer' = answer
  BY DEF Run
<1>3. \A row : Fresh(row)' <=> Fresh(row)
  BY <1>1 DEF Fresh
<1>4. latest = [u \in Urls |-> latest[u]]
  BY DEF Safe, Written
<1> HIDE DEF request
<1>5. CASE request.op = "get"
  <2>1. answer' = [url |-> request.url, token |-> Found(request.url)]
    BY <1>5 DEF Run, request
  <2>2. request.url \in Urls
    BY <1>1, <1>5 DEF IsCall
  <2>3. Found(request.url) = Last[request.url]
    BY <2>2, FoundIsLast
  <2>4. Last' = Last
    BY <1>1, <1>3, <1>5 DEF Last, LatestAfter
  <2>5. Port!Get
    BY <2>1, <2>2, <2>3, <2>4 DEF Port!Get, Last
  <2> QED
    BY <2>5 DEF Port!Next
<1>6. CASE request.op = "put"
  <2> DEFINE url == request.url
             row == request.row
  <2>1. url \in Urls /\ row.token \in Tokens /\ row # None
    BY <1>1, <1>6 DEF IsCall, IsRow
  <2>2. latest' = [latest EXCEPT ![url] = row]
    BY <1>1, <1>6 DEF LatestAfter
  <2> HIDE DEF url, row
  <2>3. CASE Fresh(row)
    <3> DEFINE lost == {}
    <3>1. lost \in SUBSET Urls
      OBVIOUS
    <3>2. Last' = [u \in Urls |-> IF u = url THEN row.token
                                 ELSE IF u \in lost THEN None ELSE Last[u]]
      BY <1>3, <1>4, <2>1, <2>2, <2>3 DEF Last
    <3> HIDE DEF lost
    <3>3. Port!Put
      BY <1>2, <1>6, <2>1, <3>1, <3>2 DEF Port!Put, Last
    <3> QED
      BY <3>3 DEF Port!Next
  <2>4. CASE ~Fresh(row)
    <3>1. Last' = [Last EXCEPT ![url] = None]
      BY <1>3, <1>4, <2>1, <2>2, <2>4 DEF Last
    <3>2. Port!Remove
      BY <1>2, <1>6, <2>1, <3>1 DEF Port!Remove, Last
    <3> QED
      BY <3>2 DEF Port!Next
  <2> QED
    BY <2>3, <2>4
<1>7. CASE request.op = "remove"
  <2>1. request.url \in Urls
    BY <1>1, <1>7 DEF IsCall
  <2>2. Last' = [Last EXCEPT ![request.url] = None]
    BY <1>1, <1>3, <1>4, <1>7, <2>1 DEF Last, LatestAfter
  <2>3. Port!Remove
    BY <1>2, <1>7, <2>1, <2>2 DEF Port!Remove, Last
  <2> QED
    BY <2>3 DEF Port!Next
<1>8. CASE request.op = "clear"
  <2>1. Last' = [u \in Urls |-> None]
    BY <1>1, <1>8 DEF Last, LatestAfter
  <2>2. Port!Clear
    BY <1>2, <1>8, <2>1 DEF Port!Clear, Last
  <2> QED
    BY <2>2 DEF Port!Next
<1>9. CASE request.op = "cleanup"
  <2>1. Last' = Last
    BY <1>1, <1>3, <1>9 DEF Last, LatestAfter
  <2> QED
    BY <1>2, <1>9, <2>1 DEF Port!vars, Last
<1> QED
  BY <1>1, <1>5, <1>6, <1>7, <1>8, <1>9 DEF IsCall

LEMMA TickRefines ==
    ASSUME Safe, Tick
    PROVE  Port!Next
<1> DEFINE old == {u \in Urls : Last'[u] = None}
<1>1. latest' = latest /\ answer' = answer
  BY DEF Tick
<1>2. \A u \in Urls : latest[u] # None /\ Fresh(latest[u])' => Fresh(latest[u])
  BY TickAges DEF Safe
<1>3. \A u \in Urls : Last'[u] = Last[u] \/ Last'[u] = None
  BY <1>1, <1>2 DEF Last, Fresh
<1>4. Last' = [u \in Urls |-> IF u \in old THEN None ELSE Last[u]]
  BY <1>3 DEF Last
<1>5. old \in SUBSET Urls
  OBVIOUS
<1> HIDE DEF old
<1>6. Port!Expire
  BY <1>1, <1>4, <1>5 DEF Port!Expire, Last
<1> QED
  BY <1>6 DEF Port!Next

LEMMA NextRefines == Safe /\ [Next]_vars => [Port!Next]_Port!vars
<1> SUFFICES ASSUME Safe, [Next]_vars PROVE [Port!Next]_Port!vars
  OBVIOUS
<1>1. ASSUME NEW c \in Callers, Run(c) PROVE [Port!Next]_Port!vars
  BY <1>1, RunRefines
<1>2. CASE Tick
  BY <1>2, TickRefines
<1>3. CASE ~Tick /\ \A c \in Callers : ~Run(c)
  <2>1. now' = now /\ answer' = answer /\ latest' = latest
    BY <1>3 DEF Next, Open, CreateTable, CreateIndex, SetVersion, Close, Make, MakePut,
                MakeOnUrl, MakeOnAll, Queue, Fail, vars
  <2> QED
    BY <2>1 DEF Port!vars, Fresh
<1> QED
  BY <1>1, <1>2, <1>3

\* The store is a token store whose tokens expire: over crashes, restarts and
\* migrations, a get that runs returns the token of the put that ran last for
\* its url, as a record of the calls has it, until its TTL ends.
THEOREM ImplementsTokenStore == Spec => ServesLastToken
<1>1. Safe /\ [Next]_vars => [Port!Next]_Port!vars
  BY NextRefines
<1> QED
  BY <1>1, InitRefines, AlwaysSafe, PTL DEF Spec, ServesLastToken, Port!Spec

-----------------------------------------------------------------------------
(* Types.  A queued call is of a process that has the file open.           *)

LEMMA CallFields ==
    ASSUME NEW request \in Call
    PROVE  /\ request.process \in Processes
           /\ request.op \in {"put", "get", "remove", "clear", "cleanup"}
           /\ request.op = "put" => request.url \in Urls /\ request.row \in Row
           /\ request.op \in {"get", "remove"} => request.url \in Urls
BY DEF Call

LEMMA RowsAfterTyped ==
    ASSUME NEW request \in Call, DOMAIN file.rows \subseteq Urls,
           \A u \in DOMAIN file.rows : file.rows[u] \in Row
    PROVE  /\ DOMAIN RowsAfter(request) \subseteq Urls
           /\ \A u \in DOMAIN RowsAfter(request) : RowsAfter(request)[u] \in Row
<1>1. CASE request.op = "put"
  <2>1. request.url \in Urls /\ request.row \in Row
    BY <1>1, CallFields
  <2> DEFINE url == request.url
             row == request.row
  <2>2. RowsAfter(request) = Upserted(url, row)
    BY <1>1 DEF RowsAfter
  <2> HIDE DEF url, row
  <2> QED
    BY <2>1, <2>2 DEF Upserted, url, row
<1>2. CASE request.op = "remove"
  BY <1>2 DEF RowsAfter, RowsOf
<1>3. CASE request.op = "clear"
  BY <1>3 DEF RowsAfter, NoRows
<1>4. CASE request.op = "cleanup"
  BY <1>4 DEF RowsAfter, RowsOf
<1>5. CASE request.op = "get"
  BY <1>5 DEF RowsAfter
<1> QED
  BY <1>1, <1>2, <1>3, <1>4, <1>5, CallFields

LEMMA FoundIsToken ==
    ASSUME NEW url, \A u \in DOMAIN file.rows : file.rows[u] \in Row
    PROVE  Found(url) \in Tokens \cup {None}
BY DEF Found, Row

LEMMA QueueTyped ==
    ASSUME TypeOK, Aged, NEW c \in Callers, NEW p \in Processes,
           NEW request \in Call, request.process = p, Queue(c, p, request)
    PROVE  TypeOK'
<1>1. conn[p] = "open" /\ UNCHANGED <<now, file, conn, answer, latest>>
  BY DEF Queue
<1>2. \A d \in Callers : call'[d] = IF d = c THEN request ELSE call[d]
  BY DEF Queue, Aged
<1>3. \A d \in Callers : call'[d] # None => call'[d] \in Call /\ conn'[call'[d].process] = "open"
  BY <1>1, <1>2 DEF TypeOK
<1> QED
  BY <1>1, <1>3 DEF TypeOK

LEMMA NextTyped == Safe /\ TypeOK /\ [Next]_vars => TypeOK'
<1> SUFFICES ASSUME Safe, TypeOK, [Next]_vars PROVE TypeOK'
  OBVIOUS
<1>0. FileShape /\ Aged /\ call = [c \in Callers |-> call[c]]
      /\ now' \in 0 .. MaxTime
  <2>1. Aged'
    BY NextAged DEF Safe, Migrated
  <2> QED
    BY <2>1 DEF Safe, Migrated, Aged
\* A process that has not opened the file has no call.
<1>1. ASSUME NEW p \in Processes, conn[p] # "open",
             NEW step \in {"create_table", "create_index", "set_version", "open"},
             Goto(p, step), UNCHANGED <<call, answer, latest>>, file'.rows = file.rows,
             file'.version \in {0, 1}, {file'.table, file'.index} \subseteq BOOLEAN
      PROVE  TypeOK'
  <2>1. conn' \in [Processes -> Steps] /\ \A q \in Processes \ {p} : conn'[q] = conn[q]
    BY <1>1 DEF TypeOK, Goto, Steps
  <2>2. \A c \in Callers : call[c] # None => call[c].process \in Processes \ {p}
    BY <1>1, CallFields DEF TypeOK
  <2> QED
    BY <1>0, <1>1, <2>1, <2>2 DEF TypeOK, Steps
<1>2. ASSUME NEW p \in Processes, Open(p) PROVE TypeOK'
  <2>1. PICK step \in {"create_table", "open"} : Goto(p, step)
    BY <1>2 DEF Open
  <2> QED
    BY <1>1, <1>2, <2>1 DEF Open, TypeOK
<1>3. ASSUME NEW p \in Processes, CreateTable(p) PROVE TypeOK'
  <2>1. file' = [version |-> file.version, table |-> TRUE, index |-> file.index, rows |-> file.rows]
    BY <1>0, <1>3 DEF CreateTable, FileShape
  <2> QED
    BY <1>1, <1>3, <2>1 DEF CreateTable, TypeOK
<1>4. ASSUME NEW p \in Processes, CreateIndex(p) PROVE TypeOK'
  <2>1. file' = [version |-> file.version, table |-> file.table, index |-> TRUE, rows |-> file.rows]
    BY <1>0, <1>4 DEF CreateIndex, FileShape
  <2> QED
    BY <1>1, <1>4, <2>1 DEF CreateIndex, TypeOK
<1>5. ASSUME NEW p \in Processes, SetVersion(p) PROVE TypeOK'
  <2>1. file' = [version |-> 1, table |-> file.table, index |-> file.index, rows |-> file.rows]
    BY <1>0, <1>5 DEF SetVersion, FileShape
  <2> QED
    BY <1>1, <1>5, <2>1 DEF SetVersion, TypeOK
<1>6. ASSUME NEW p \in Processes, Close(p) PROVE TypeOK'
  <2>1. conn' \in [Processes -> Steps] /\ \A q \in Processes \ {p} : conn'[q] = conn[q]
    BY <1>6 DEF Close, TypeOK, Goto, Steps
  <2>2. \A c \in Callers : call'[c] # None =>
            call'[c] = call[c] /\ call[c] # None /\ call[c].process # p
    BY <1>6 DEF Close
  <2>3. \A c \in Callers : call'[c] # None => call'[c] \in Call /\ conn'[call'[c].process] = "open"
    BY <2>1, <2>2, CallFields DEF TypeOK
  <2> QED
    BY <1>6, <2>1, <2>3 DEF Close, TypeOK, Steps
<1>7. ASSUME NEW c \in Callers, NEW p \in Processes, NEW url \in Urls, NEW token \in Tokens,
             NEW ttl \in Ttls, MakePut(c, p, url, token, ttl)
      PROVE  TypeOK'
  <2> DEFINE row == [token |-> token, expires |-> ExpiresAt(ttl), born |-> now, ttl |-> ttl]
             request == [process |-> p, op |-> "put", url |-> url, row |-> row]
  <2>1. ttl \in Nat \cup {None} /\ now \in Nat
    BY SqliteAssumption DEF TypeOK
  <2>2. ExpiresAt(ttl) \in Int \cup {None}
    BY <2>1, SqliteAssumption DEF ExpiresAt, Wrapped
  <2>3. request \in Call /\ request.process = p
    BY <2>1, <2>2 DEF Call, Row
  <2>4. Queue(c, p, request)
    BY <1>7 DEF MakePut
  <2> HIDE DEF request
  <2> QED
    BY <1>0, <2>3, <2>4, QueueTyped
<1>8. ASSUME NEW c \in Callers, NEW p \in Processes, NEW url \in Urls,
             NEW op \in {"get", "remove"}, MakeOnUrl(c, p, op, url)
      PROVE  TypeOK'
  <2> DEFINE request == [process |-> p, op |-> op, url |-> url]
  <2>1. request \in Call /\ request.process = p /\ Queue(c, p, request)
    BY <1>8 DEF Call, MakeOnUrl
  <2> HIDE DEF request
  <2> QED
    BY <1>0, <2>1, QueueTyped
<1>9. ASSUME NEW c \in Callers, NEW p \in Processes, NEW op \in {"clear", "cleanup"},
             MakeOnAll(c, p, op)
      PROVE  TypeOK'
  <2> DEFINE request == [process |-> p, op |-> op]
  <2>1. request \in Call /\ request.process = p /\ Queue(c, p, request)
    BY <1>9 DEF Call, MakeOnAll
  <2> HIDE DEF request
  <2> QED
    BY <1>0, <2>1, QueueTyped
<1>10. ASSUME NEW c \in Callers, Run(c) PROVE TypeOK'
  <2>1. call[c] \in Call
    BY <1>10 DEF Run, TypeOK
  <2>2. /\ DOMAIN file'.rows \subseteq Urls
        /\ \A u \in DOMAIN file'.rows : file'.rows[u] \in Row
        /\ file'.version = file.version /\ file'.table = file.table
        /\ file'.index = file.index /\ conn' = conn
    BY <1>0, <1>10, <2>1, RunKeepsSchema, RowsAfterTyped DEF TypeOK
  <2>3. \A d \in Callers : call'[d] # None => call'[d] = call[d]
    BY <1>0, <1>10 DEF Run
  <2>4. answer' \in [url : Urls, token : Tokens \cup {None}] \cup {None}
    <3>1. CASE call[c].op = "get"
      <4>1. answer' = [url |-> call[c].url, token |-> Found(call[c].url)]
        BY <1>10, <3>1 DEF Run
      <4>2. call[c].url \in Urls /\ Found(call[c].url) \in Tokens \cup {None}
        BY <2>1, <3>1, CallFields, FoundIsToken DEF TypeOK
      <4> QED
        BY <4>1, <4>2
    <3>2. CASE call[c].op # "get"
      BY <1>10, <3>2 DEF Run, TypeOK
    <3> QED
      BY <3>1, <3>2
  <2>5. latest' \in [Urls -> Row \cup {None}]
    <3>1. latest' = LatestAfter(call[c]) /\ latest \in [Urls -> Row \cup {None}]
      BY <1>10 DEF Run, TypeOK
    <3> QED
      BY <2>1, <3>1, CallFields DEF LatestAfter
  <2> QED
    BY <1>0, <2>2, <2>3, <2>4, <2>5 DEF TypeOK
<1>11. ASSUME NEW c \in Callers, Fail(c) PROVE TypeOK'
  BY <1>0, <1>11 DEF Fail, TypeOK
<1>12. CASE Tick
  BY <1>0, <1>12 DEF Tick, TypeOK
<1>13. CASE UNCHANGED vars
  BY <1>13 DEF vars, TypeOK
<1> QED
  BY <1>2, <1>3, <1>4, <1>5, <1>6, <1>7, <1>8, <1>9, <1>10, <1>11, <1>12, <1>13
     DEF Next, Make

\* The types, of which one part is no matter of types: no call waits for a process
\* that has the file closed or is migrating it.
THEOREM StoreTypeCorrect == Spec => []TypeOK
<1>1. Init => TypeOK
  BY SqliteAssumption DEF Init, TypeOK, NoRows
<1> QED
  BY <1>1, NextTyped, AlwaysSafe, PTL DEF Spec
===============================================================================
