---------------------------- MODULE MCConnection ----------------------------
(* A connection at both its ends, for TLC: the interactive authorization of *)
(* one (ConnectionLifecycle), what a definition makes of its options        *)
(* (DefinitionEdits), the generations of one that resumes a session         *)
(* (SessionAdoption), and its requests on their way through the gate and    *)
(* the rate limit of a server (RequestPipeline).  The parts are             *)
(* independent: a behaviour is one of one part.  Of the options, those that *)
(* act on each other are varied together, and then one field more.          *)
EXTENDS ConnectionLifecycle, SessionAdoption, RequestPipeline, DefinitionEdits, TLC

CONSTANTS Parts, d1, d2, o1, o2, id1, e1, e2, k1, k2, r1, r2, r3, t1, t2

VARIABLES
    part,
    config     \* ConfigEntries: [id, entry]

Files == INSTANCE ConfigEntries WITH Absent <- None

Twins == Permutations(Entries) \cup Permutations(Ops) \cup Permutations(Callers) \cup
         Permutations(Requests) \cup Permutations(Tokens)

Plain ==
    [ kind |-> "streamable-http", policy |-> 1, target |-> "t1", digest |-> "d1",
      auth |-> "none", headers |-> {}, init |-> {}, store |-> FALSE, partition |-> None,
      version |-> None, era |-> "modern", handlers |-> {}, roots |-> None, rounds |-> None,
      tasks |-> TRUE, url |-> FALSE, resume |-> None,
      client |-> [mode |-> None, store |-> FALSE, strict |-> None, roots |-> None] ]
Few == {s \in SUBSET {"Authorization", "authorization", "x"} : Cardinality(s) <= 1}
Samples ==
    { [Plain EXCEPT !.kind = k, !.auth = a, !.headers = h, !.init = i, !.store = s,
                    !.client.store = c, !.partition = p] :
        k \in Definitions!Kinds, a \in Definitions!Auths, h \in Few, i \in Few,
        s \in BOOLEAN, c \in BOOLEAN, p \in {"p1", None} } \cup
    { [Plain EXCEPT !.kind = k, !.version = v, !.era = e, !.resume = r,
                    !.client.mode = m, !.client.strict = s] :
        k \in Definitions!Kinds, v \in {"legacy", "modern", "unknown", None},
        e \in {"legacy", "modern"}, r \in {"legacy", "modern", "eraless", "unknown", None},
        m \in Definitions!Modes \cup {None}, s \in BOOLEAN \cup {None} } \cup
    { [Plain EXCEPT !.kind = k, !.handlers = h, !.roots = r, !.rounds = n, !.tasks = t,
                    !.url = u, !.client.roots = c] :
        k \in {"streamable-http", "in-process"}, h \in SUBSET Definitions!Handlers,
        r \in {"static", "dynamic", None}, n \in {0, 1, None}, t \in BOOLEAN, u \in BOOLEAN,
        c \in BOOLEAN \cup {None} }

Edited(o) ==
    {[o EXCEPT !.policy = x] : x \in 0..2} \cup {[o EXCEPT !.target = x] : x \in {"t1", "t2"}} \cup
    {[o EXCEPT !.digest = x] : x \in {"d1", None}} \cup {[o EXCEPT !.kind = x] : x \in Definitions!Kinds} \cup
    {[o EXCEPT !.auth = x] : x \in Definitions!Auths} \cup {[o EXCEPT !.headers = x] : x \in Few} \cup
    {[o EXCEPT !.init = x] : x \in Few} \cup {[o EXCEPT !.store = x] : x \in BOOLEAN} \cup
    {[o EXCEPT !.partition = x] : x \in {"p1", None}} \cup
    {[o EXCEPT !.version = x] : x \in {"legacy", "modern", None}} \cup
    {[o EXCEPT !.era = x] : x \in {"legacy", "modern"}} \cup
    {[o EXCEPT !.handlers = x, !.rounds = 1] : x \in SUBSET Definitions!Handlers} \cup
    {[o EXCEPT !.roots = x] : x \in {"static", "dynamic", None}} \cup
    {[o EXCEPT !.tasks = x] : x \in BOOLEAN} \cup {[o EXCEPT !.url = x] : x \in BOOLEAN} \cup
    {[o EXCEPT !.resume = x] : x \in {"legacy", None}}

(* Entries that declare and hold this or that, and command lines of a few    *)
(* tokens, read with a variable that is missing, one word, or two.           *)
Bare ==
    [ type |-> None, transport |-> None, url |-> None, command |-> None, args |-> None,
      cwd |-> <<>>, env |-> <<>>, headers |-> <<>>, timeout |-> None,
      protocolVersion |-> None, namespace |-> None, malformed |-> FALSE ]
Declared == {None, "stdio", "http", "sse", "other"}
Urls == {None, <<"u">>, <<"${A}">>, <<"${input:key}", "${env:A}">>}
Lines == UNION {[1..n -> {"w", " ", "'", "\\", "${A}"}] : n \in 0..3}
Arguments == {None, <<>>, <<<<"${A}">>>>, <<<<"w", " ">>>>}
Written ==
    { [Bare EXCEPT !.type = t, !.transport = x, !.url = u, !.command = c, !.protocolVersion = v] :
        t \in Declared, x \in Declared, u \in Urls, c \in {None, <<>>, <<"${A}">>, <<"w">>},
        v \in {None, "v"} } \cup
    {[Bare EXCEPT !.command = c, !.args = a] : c \in Lines, a \in Arguments}
Edits(e) ==
    {[e EXCEPT !.url = x] : x \in Urls} \cup {[e EXCEPT !.headers = x] : x \in {<<"w">>, <<"${A}">>}} \cup
    {[e EXCEPT !.env = x] : x \in {<<"w">>, <<"${A}">>}} \cup {[e EXCEPT !.args = x] : x \in Arguments} \cup
    {[e EXCEPT !.type = x] : x \in Declared} \cup {[e EXCEPT !.timeout = x] : x \in {None, 0, 4, 20}} \cup
    {[e EXCEPT !.namespace = x] : x \in {None, <<"a", "_">>}} \cup {[e EXCEPT !.cwd = <<"${A}">>]} \cup
    {[e EXCEPT !.malformed = x] : x \in BOOLEAN}
Env(value) == [A |-> value, workspaceFolder |-> None]
Envs == {None} \cup {Env(value) : value \in {None, <<"x">>, <<"x", " ", "y">>}}
Names == UNION {[1..n -> {"a", ".", "_", "-"}] : n \in 1..3}

ConnectionInit ==
    /\ part \in Parts /\ Init /\ AdoptionInit /\ PipelineInit
    /\ config \in IF part = "file" THEN [id: Names, entry: {Bare}] \cup [id: {<<"a">>}, entry: Written]
                  ELSE {None}
    /\ options \in IF part = "definition" THEN Samples ELSE {None}
    /\ (part # "adoption" => pinned = Undefined /\ ~sticky)
    /\ (part # "pipeline" => \A t \in Tokens : grant[t].exp = 5)
ConnectionNext ==
    /\ UNCHANGED <<part, options, config>>
    /\ \/ part = "lifecycle" /\ Next /\ UNCHANGED <<adoptionVars, pipelineVars>>
       \/ part = "adoption" /\ AdoptionNext /\ UNCHANGED <<vars, pipelineVars>>
       \/ part = "pipeline" /\ PipelineNext /\ UNCHANGED <<vars, adoptionVars>>
ConnectionSpec ==
    ConnectionInit /\ [][ConnectionNext]_<<part, options, config, vars, adoptionVars, pipelineVars>>

-----------------------------------------------------------------------------
(* ConfigEntries: an entry, or a variable, whose change reaches the         *)
(* connection changes the digest; the words of a command are those of the   *)
(* file; what is loaded is started as declared, under a safe namespace.     *)
ReadAsWritten ==
    part = "file" =>
        LET read == config.entry
            Second(e) == [id |-> <<"a", "_">>, entry |-> e]
        IN /\ \A env \in Envs, disk \in {{}} \cup IF read.url = None THEN {{read.command}} ELSE {}, e \in Edits(read) :
                /\ \A rotated \in {env, Env(<<"y">>)} :
                    /\ Files!DigestTellsApart(read, e, env, rotated, disk)
                    /\ Files!ArgumentsAreWritten(e, env, rotated, disk)
                /\ Files!StartsAsDeclared(<<config, Second(e)>>, env, disk)
           /\ read.command # None =>
                \A arg \in {<<>>, <<"'", " ", "\"">>} : Files!QuotingReturns(<<read.command, arg>>)
=============================================================================
