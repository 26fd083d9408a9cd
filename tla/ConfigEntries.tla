---------------------------- MODULE ConfigEntries ----------------------------
(***************************************************************************)
(* connectionsFromMcpConfig (src/node/config.ts) with parseCommandLine     *)
(* (src/node/command.ts): what an `mcpServers` file makes of each entry,   *)
(* which entries it refuses, and the digest by which a host that reads the *)
(* file again tells an edited entry from an untouched one.                 *)
(*                                                                         *)
(* A string is a sequence of tokens: characters that mean something to the *)
(* loader, and words and references, each as one.  A field that has the    *)
(* wrong type is `malformed`, whichever it is; `headers` and `env` hold one *)
(* value, and it is empty, as `cwd` is, where there is none.               *)
(***************************************************************************)
EXTENDS Naturals, FiniteSets, SequencesExt

CONSTANT Absent

Quotes == {"'", "\""}

(* A reference, and the variable it names; `${workspaceFolder}` and the     *)
(* like of `${input:key}` are the host's, unless spelled `${env:...}`.      *)
ReferenceName ==
  [t \in {"${A}", "${env:A}", "${env:workspaceFolder}"} |->
     IF t = "${env:workspaceFolder}" THEN "workspaceFolder" ELSE "A"]
Hosted == {"${workspaceFolder}", "${input:key}", "${}"}

(* substituteEntry, of one value; `env` is Absent where it is off.  A       *)
(* variable that is missing leaves nothing behind.                          *)
Substitute(text, env) ==
  FlattenSeq([i \in DOMAIN text |->
    CASE env = Absent \/ text[i] \notin DOMAIN ReferenceName -> <<text[i]>>
      [] env # Absent /\ text[i] \in DOMAIN ReferenceName ->
           LET value == env[ReferenceName[text[i]]] IN IF value = Absent THEN <<>> ELSE value])

SubstituteEach(texts, env) == [i \in DOMAIN texts |-> Substitute(texts[i], env)]

-----------------------------------------------------------------------------
(* parseCommandLine, a character at a time: `quote` is the quote that is    *)
(* open, `escaped` says that the last character was a backslash that counts.*)
NoWord == [words |-> <<>>, word |-> <<>>, started |-> FALSE, quote |-> Absent, escaped |-> FALSE]

Into(line, char) == [line EXCEPT !.word = Append(@, char), !.started = TRUE, !.escaped = FALSE]

Escaped(line, char) ==
  IF line.quote = Absent \/ char \in {"\"", "\\"} \cup DOMAIN ReferenceName \cup Hosted
  THEN Into(line, char)
  ELSE Into(Into(line, "\\"), char)

(* In double quotes a backslash before a quote that is not its own, or      *)
(* before a word, is kept, and the quote that ends them is seen as one.     *)
Plainly(line, char) ==
  CASE char = "\\" /\ line.quote # "'" -> [line EXCEPT !.escaped = TRUE]
    [] char \in Quotes /\ line.quote = Absent -> [line EXCEPT !.quote = char, !.started = TRUE]
    [] char = line.quote -> [line EXCEPT !.quote = Absent]
    [] char = " " /\ line.quote = Absent ->
         IF line.started
         THEN [line EXCEPT !.words = Append(@, line.word), !.word = <<>>, !.started = FALSE]
         ELSE line
    [] OTHER -> Into(line, char)

(* An operator with a suffix is a variant of the one it precedes, with one  *)
(* mistake the code could have made: a property below refutes it.           *)
Ended_DropsEmpty(line) == IF line.word # <<>> THEN Append(line.words, line.word) ELSE line.words

(* The words when the line ends: `''` is one.                               *)
Ended(line) == IF line.started THEN Append(line.words, line.word) ELSE line.words

(* The words of a command line; <<>> stands for one that is refused.        *)
Words(text) ==
  LET line == FoldLeft(LAMBDA l, c : IF l.escaped THEN Escaped(l, c) ELSE Plainly(l, c), NoWord, text)
      words == Ended(line)
  IN IF line.quote # Absent \/ line.escaped \/ words = <<>> THEN <<>>
     ELSE IF words[1] = <<>> THEN <<>> ELSE words

-----------------------------------------------------------------------------
(* assertEntryShape and entryTransportType.                                 *)
Declared(entry) == {entry.type, entry.transport} \ {Absent}

Transport(entry) ==
  CASE Declared(entry) # {} -> CHOOSE kind \in Declared(entry) : TRUE
    [] Declared(entry) = {} /\ entry.url # Absent -> "http"
    [] OTHER -> "stdio"

Misdeclared(entry) ==
  \/ entry.malformed
  \/ ~(Declared(entry) \subseteq {"stdio", "http", "sse"}) \/ Cardinality(Declared(entry)) > 1
  \/ Declared(entry) = {"stdio"} /\ entry.url # Absent /\ entry.command = Absent
  \/ Declared(entry) \in {{"http"}, {"sse"}} /\ entry.command # Absent /\ entry.url = Absent

(* looksLikeCommandLine, decided on the text as written; `disk` holds the   *)
(* paths that exist.                                                        *)
IsCommandLine(raw, disk) ==
  LET tokens == ToSet(raw) IN
  /\ " " \in tokens /\ raw \notin disk
  /\ ~("\\" \in tokens /\ tokens \cap Quotes = {})
  /\ raw[1] # "C:\\"

Command_SplitsLast(entry, env, disk) ==
  LET raw == Substitute(entry.command, env)
      words == IF entry.args = Absent /\ IsCommandLine(raw, disk) THEN Words(raw) ELSE <<raw>>
  IN IF words = <<>> THEN words
     ELSE words \o IF entry.args = Absent THEN <<>> ELSE SubstituteEach(entry.args, env)

(* entryCommand: the program and its arguments, substituted after the line  *)
(* was split; <<>> where the line is refused.                               *)
Command(entry, env, disk) ==
  LET raw == entry.command
      words == CASE entry.args # Absent -> <<raw>> \o entry.args
                 [] entry.args = Absent /\ IsCommandLine(raw, disk) -> Words(raw)
                 [] OTHER -> <<raw>>
  IN IF raw = <<>> THEN <<>> ELSE SubstituteEach(words, env)

(* substituteEntry.  Of an entry with a command, `args` becomes the command *)
(* with its arguments; without one, they are left as they are.              *)
Substituted(entry, env, disk) ==
  [ entry EXCEPT
      !.url = IF @ = Absent THEN Absent ELSE Substitute(@, env),
      !.headers = Substitute(@, env), !.env = Substitute(@, env), !.cwd = Substitute(@, env),
      !.args = CASE entry.command = Absent -> @
                 [] entry.command # Absent /\ Transport(entry) = "stdio" -> Command(entry, env, disk)
                 [] OTHER -> SubstituteEach(<<entry.command>> \o IF @ = Absent THEN <<>> ELSE @, env),
      !.command = IF @ = Absent THEN Absent ELSE <<>> ]

(* What is refused of an entry, or lost with it.  A command that lost all   *)
(* of its text to a missing variable is refused as one that is not there.   *)
Refused(entry, env, disk) ==
  LET shape == Substituted(entry, env, disk) IN
  \/ Misdeclared(entry)
  \/ entry.timeout # Absent /\ entry.timeout <= 0
  \/ /\ Transport(entry) = "stdio"
     /\ entry.command = Absent \/ shape.args = <<>> \/ Head(shape.args) = <<>>
  \/ Transport(entry) # "stdio" /\ shape.url \in {Absent, <<>>}
  \/ Transport(entry) = "sse" /\ entry.protocolVersion # Absent

(* entryTimeoutMs: tenths of a millisecond, rounded.                        *)
TimeoutMs(entry) == IF entry.timeout = Absent THEN Absent ELSE (entry.timeout + 5) \div 10

(* mcpConfigNamespace: runs of other characters are one `_`, and none leads.*)
Cleaned(id) ==
  LET safe == FoldLeft(LAMBDA name, c :
                IF c \in {".", "_"} THEN IF name # <<>> /\ Last(name) = "_" THEN name ELSE Append(name, "_")
                ELSE Append(name, c), <<>>, id)
      starts == {i \in DOMAIN safe : safe[i] \notin {"_", "-"}}
  IN IF starts = {} THEN <<"server">>
     ELSE SubSeq(safe, CHOOSE i \in starts : \A j \in starts : i <= j, Len(safe))

Namespace(id, entry) == IF entry.namespace # Absent THEN entry.namespace ELSE Cleaned(id)

(* What reaches the connection.                                             *)
Connection(entry, env, disk) ==
  LET shape == Substituted(entry, env, disk)
      kind == Transport(entry)
  IN [ kind |-> kind, timeoutMs |-> TimeoutMs(entry), version |-> entry.protocolVersion,
       run |-> IF kind = "stdio" THEN <<shape.args, shape.env, shape.cwd>> ELSE <<>>,
       remote |-> IF kind = "stdio" THEN <<>> ELSE <<shape.url, shape.headers>> ]

Digest_AsWritten(entry, env, disk) == entry

(* entryFingerprint: the whole entry, as it stands after substitution.      *)
Digest(entry, env, disk) == Substituted(entry, env, disk)

(* connectionsFromMcpConfig: one entry that is refused, or two that share a *)
(* namespace, refuse the file.                                              *)
Loads(config, env, disk) ==
  /\ \A i \in DOMAIN config : ~Refused(config[i].entry, env, disk)
  /\ \A i, j \in DOMAIN config : i # j =>
       Namespace(config[i].id, config[i].entry) # Namespace(config[j].id, config[j].entry)

-----------------------------------------------------------------------------
(* "A rotated credential MUST count as a change" (config.ts:538): of two    *)
(* readings of an entry whose connections differ, so do the digests.        *)
DigestTellsApart(entry, edited, env, rotated, disk) ==
  ~Refused(entry, env, disk) /\ ~Refused(edited, rotated, disk)
    /\ Connection(entry, env, disk) # Connection(edited, rotated, disk)
  => Digest(entry, env, disk) # Digest(edited, rotated, disk)

(* "a `${VAR}` that expands to `/Applications/My App/bin/srv` is never      *)
(* re-split by the expansion": how many arguments a program gets is decided *)
(* by the file, whatever the variables hold.                                *)
ArgumentsAreWritten(entry, env, rotated, disk) ==
  ~Misdeclared(entry) /\ Transport(entry) = "stdio" /\ entry.command # Absent =>
    Len(Command(entry, env, disk)) = Len(Command(entry, rotated, disk))

(* parseCommandLine: what is quoted comes back as the arguments it was      *)
(* quoted from, whatever is in them.                                        *)
Quoted(arg) ==
  <<"'">> \o FlattenSeq([i \in DOMAIN arg |->
    IF arg[i] = "'" THEN <<"'", "\\", "'", "'">> ELSE <<arg[i]>>]) \o <<"'">>
QuotingReturns(args) ==
  args # <<>> /\ args[1] # <<>> =>
    Words(FlattenSeq([i \in DOMAIN args |-> <<" ">> \o Quoted(args[i])])) = args

(* "each definition carries a hub-safe namespace suggestion"                *)
(* (config.ts:127): alphanumeric, `_` and `-`, led by neither.              *)
NamespaceIsSafe(id, entry) ==
  LET name == Namespace(id, entry) IN
  name # <<>> /\ name[1] \notin {"_", "-", "."} /\ "." \notin ToSet(name)

(* What the loader refuses to guess: every entry of a file that loads is    *)
(* started as it declares, with the fields that this takes, and under a     *)
(* namespace of its own, which is safe where the file does not give it.     *)
StartsAsDeclared(config, env, disk) ==
  Loads(config, env, disk) =>
    \A i \in DOMAIN config :
      LET entry == config[i].entry
          made == Connection(entry, env, disk)
      IN /\ Declared(entry) \subseteq {made.kind}
         /\ IF made.kind = "stdio" THEN made.run[1] # <<>> /\ made.run[1][1] # <<>>
            ELSE made.remote[1] \notin {Absent, <<>>}
         /\ \A j \in DOMAIN config : j # i =>
              Namespace(config[j].id, config[j].entry) # Namespace(config[i].id, entry)
         /\ entry.namespace = Absent => NamespaceIsSafe(config[i].id, entry)
=============================================================================
