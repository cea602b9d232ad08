------------------------------ MODULE Settings ------------------------------
(***************************************************************************)
(* Package config and the start of run: the lines of the .env file go into *)
(* the environment one by one (LoadDotenv), the settings are taken from    *)
(* the environment and checked (Load), and --check-ingest asks for more    *)
(* (RequireNR).  Values are texts, so that what trimming, quotes and       *)
(* comments make of them is what the code makes of them.  The name of a    *)
(* setting is one character, a number any text of digits, and a valid      *)
(* format or mode the first letter of its name.                            *)
(***************************************************************************)
EXTENDS Texts, FiniteSets

CONSTANTS
  Starts,  \* possible pairs of the process environment, [Names -> texts and
           \* Unset], and the .env file, a sequence of lines
  Unset    \* no text at all

\* The characters of a text, which holds no NUL.
Codes == 1..1114111

HOST == <<201>>
SERVICE == <<202>>
USER == <<203>>
PASSWORD == <<204>>
PATH == <<205>>
FORMAT == <<206>>
MODE == <<207>>
PORT == <<208>>
TOLGAUGE == <<209>>
TOLCOUNTER == <<210>>
EPSILON == <<211>>
INTERVAL == <<212>>
WINDOW == <<213>>
APIKEY == <<214>>
ACCOUNT == <<215>>
URL == <<216>>
SCOPE == <<217>>

Required == {HOST, SERVICE, USER, PASSWORD}
Numbers  == {PORT, TOLGAUGE, TOLCOUNTER, EPSILON, INTERVAL, WINDOW}
Names    == Required \cup Numbers \cup {PATH, FORMAT, MODE, APIKEY, ACCOUNT, URL, SCOPE}

ASSUME StartsAssumption ==
  /\ Starts \subseteq [Names -> Seq(Codes) \cup {Unset}] \X Seq(Seq(Codes))
  /\ Unset \notin Seq(Codes)

OTLP == <<111>>
DEBUGLOG == <<100>>
PDB == <<112>>
CDB == <<99>>
Default == <<48>>      \* the default of a number or address
HostName == <<104>>    \* host.name, the default of SCOPE

ToLower(s) == [i \in DOMAIN s |-> IF s[i] \in 65..90 THEN s[i] + 32 ELSE s[i]]
IsNumber(s) == s # <<>> /\ \A i \in DOMAIN s : s[i] \in 48..57

VARIABLES
  env,      \* the environment
  lines,    \* lines of the file that are still to be loaded
  phase,    \* "dotenv", "load", "require", and then "ready" or "refused"
  config,   \* what Load returned: [value, scope], or <<>>
  checkIngest,
  env0, file   \* history: the environment and the file at the start

vars == <<env, lines, phase, config, checkIngest, env0, file>>

Init ==
  /\ \E start \in Starts : env0 = start[1] /\ file = start[2]
  /\ env = env0 /\ lines = file
  /\ phase = "dotenv" /\ config = <<>>
  /\ checkIngest \in BOOLEAN

-----------------------------------------------------------------------------
(* LoadDotenv. *)

\* Mutant: any '#' starts a comment.
ValueOf_AnyHash(v) ==
  CASE v = <<>> -> v
    [] v # <<>> /\ Head(v) \in {DQUOTE, SQUOTE} ->
         IF Find(Head(v), Tail(v)) = 0 THEN Tail(v) ELSE Before(Head(v), Tail(v))
    [] OTHER -> IF Find(HASH, v) = 0 THEN v ELSE TrimSpace(Before(HASH, v))

\* v is trimmed.  An opening quote ends the value at the next one; without
\* one a comment starts at a space in front of a '#'.
ValueOf(v) ==
  LET comments == {i \in 1..Len(v) - 1 : v[i] = SPACE /\ v[i + 1] = HASH}
      comment == CHOOSE i \in comments : \A j \in comments : i <= j
  IN CASE v = <<>> -> v
       [] v # <<>> /\ Head(v) \in {DQUOTE, SQUOTE} ->
            IF Find(Head(v), Tail(v)) = 0 THEN Tail(v) ELSE Before(Head(v), Tail(v))
       [] OTHER -> IF comments = {} THEN v ELSE TrimSpace(SubSeq(v, 1, comment - 1))

\* What LoadDotenv sets for a line: nothing, or a name to a value.
Assigns(raw) ==
  LET line == TrimSpace(raw)
  IN IF line = <<>> \/ line[1] = HASH \/ Find(EQUALS, line) = 0 THEN {}
     ELSE {<<TrimSpace(Before(EQUALS, line)),
             ValueOf(TrimSpace(After(EQUALS, line)))>>}

\* Mutant: the file wins over the environment.
LoadLine_Overwrites ==
  /\ phase = "dotenv" /\ lines # <<>>
  /\ lines' = Tail(lines)
  /\ env' = [n \in Names |->
       IF \E a \in Assigns(Head(lines)) : a[1] = n
       THEN (CHOOSE a \in Assigns(Head(lines)) : TRUE)[2] ELSE env[n]]
  /\ UNCHANGED <<phase, config, checkIngest, env0, file>>

\* A name that is set, even to nothing, is left alone.  Names that are no
\* settings are set as well, and never read.
LoadLine ==
  /\ phase = "dotenv" /\ lines # <<>>
  /\ lines' = Tail(lines)
  /\ env' = [n \in Names |->
       IF env[n] = Unset /\ \E a \in Assigns(Head(lines)) : a[1] = n
       THEN (CHOOSE a \in Assigns(Head(lines)) : TRUE)[2] ELSE env[n]]
  /\ UNCHANGED <<phase, config, checkIngest, env0, file>>

LoadedAll ==
  /\ phase = "dotenv" /\ lines = <<>>
  /\ phase' = "load"
  /\ UNCHANGED <<env, lines, config, checkIngest, env0, file>>

\* The file is there and cannot be read.
UnreadableFile ==
  /\ phase = "dotenv" /\ lines = file
  /\ phase' = "refused"
  /\ UNCHANGED <<env, lines, config, checkIngest, env0, file>>

-----------------------------------------------------------------------------
(* Load and RequireNR. *)

Getenv(n) == IF env[n] = Unset THEN <<>> ELSE env[n]

envOr(n, def) == IF Getenv(n) = <<>> THEN def ELSE Getenv(n)

Format == ToLower(TrimSpace(envOr(FORMAT, OTLP)))
Mode   == ToLower(TrimSpace(envOr(MODE, PDB)))

\* intOr and floatOr.
NumberOr(n) == IF Getenv(n) = <<>> THEN Default ELSE TrimSpace(Getenv(n))

\* Mutant: what is empty between two commas is kept.
scopeAttrs_KeepsEmpty ==
  IF env[SCOPE] = Unset THEN <<HostName>>
  ELSE LET parts == Split(COMMA, env[SCOPE])
       IN [i \in DOMAIN parts |-> TrimSpace(parts[i])]

\* What one of the names between the commas gives.
Kept(name) == IF name = <<>> THEN <<>> ELSE <<name>>

\* Set but empty is no scope at all.
scopeAttrs ==
  IF env[SCOPE] = Unset THEN <<HostName>>
  ELSE LET parts == Split(COMMA, env[SCOPE])
       IN FlattenSeq([i \in DOMAIN parts |-> Kept(TrimSpace(parts[i]))])

\* Mutant: the path is looked at before it is trimmed.
Acceptable_RawPath ==
  /\ \A n \in Required : Getenv(n) # <<>>
  /\ Format \in {OTLP, DEBUGLOG} /\ Mode \in {PDB, CDB}
  /\ Getenv(PATH) # <<>>
  /\ \A n \in Numbers : IsNumber(NumberOr(n))

Acceptable ==
  /\ \A n \in Required : Getenv(n) # <<>>
  /\ Format \in {OTLP, DEBUGLOG} /\ Mode \in {PDB, CDB}
  /\ TrimSpace(Getenv(PATH)) # <<>>
  /\ \A n \in Numbers : IsNumber(NumberOr(n))

\* The field that a setting becomes: trimmed, but for the password.
Field(n) ==
  CASE n = FORMAT -> Format
    [] n = MODE -> Mode
    [] n \in Numbers -> NumberOr(n)
    [] n = URL -> TrimSpace(envOr(URL, Default))
    [] n = PASSWORD -> Getenv(PASSWORD)
    [] n = SCOPE -> <<>>
    [] OTHER -> TrimSpace(Getenv(n))

Load ==
  /\ phase = "load"
  /\ \/ /\ Acceptable
        /\ config' = [value |-> [n \in Names |-> Field(n)], scope |-> scopeAttrs]
        /\ phase' = "require"
     \/ ~Acceptable /\ phase' = "refused" /\ UNCHANGED config
  /\ UNCHANGED <<env, lines, checkIngest, env0, file>>

\* Mutant: one of the two credentials is enough.
RequireNR_Either ==
  /\ phase = "require"
  /\ phase' = IF checkIngest /\ \A n \in {APIKEY, ACCOUNT} : config.value[n] = <<>>
              THEN "refused" ELSE "ready"
  /\ UNCHANGED <<env, lines, config, checkIngest, env0, file>>

RequireNR ==
  /\ phase = "require"
  /\ phase' = IF checkIngest /\ \E n \in {APIKEY, ACCOUNT} : config.value[n] = <<>>
              THEN "refused" ELSE "ready"
  /\ UNCHANGED <<env, lines, config, checkIngest, env0, file>>

Next == LoadLine \/ LoadedAll \/ UnreadableFile \/ Load \/ RequireNR

Spec == Init /\ [][Next]_vars

-----------------------------------------------------------------------------
(* Properties. *)

TypeOK ==
  /\ DOMAIN env = Names
  /\ phase \in {"dotenv", "load", "require", "ready", "refused"}
  /\ \E k \in 1..Len(file) + 1 : lines = SubSeq(file, k, Len(file))
  /\ phase \in {"require", "ready"} =>
       /\ DOMAIN config.value = Names
       /\ <<>> \notin ToSet(config.scope)

\* The documented grammar of a value, of all that follows the '='.
Quoted(rest) == TrimSpace(rest) # <<>> /\ TrimSpace(rest)[1] \in {DQUOTE, SQUOTE}

DocumentedValue(rest) ==
  LET t == TrimSpace(rest)
      closing == {i \in 2..Len(t) : t[i] = t[1]}
      hashes == {i \in 2..Len(rest) : rest[i] = HASH /\ rest[i - 1] = SPACE}
      least(S, else) == IF S = {} THEN else ELSE CHOOSE i \in S : \A j \in S : i <= j
  IN IF Quoted(rest) THEN SubSeq(t, 2, least(closing, Len(t) + 1) - 1)
     ELSE TrimSpace(SubSeq(rest, 1, least(hashes, Len(rest) + 1) - 1))

\* The line defines name n, with rest behind the '='.
Defines(line, n, rest) ==
  \E i \in DOMAIN line :
    /\ line[i] = EQUALS /\ EQUALS \notin ToSet(SubSeq(line, 1, i - 1))
    /\ TrimSpace(SubSeq(line, 1, i - 1)) = n
    /\ rest = SubSeq(line, i + 1, Len(line))

\* A value that is a comment only.
OnlyComment(rest) ==
  ~Quoted(rest) /\ rest # <<>> /\ rest[1] = SPACE
    /\ TrimSpace(rest) # <<>> /\ TrimSpace(rest)[1] = HASH

Rests(line, n) == {SubSeq(line, i, Len(line)) : i \in 2..Len(line) + 1}

\* The value of n that the process environment and the file, in this order
\* and the first line that defines it, give it.
IsDeclared(n, value) ==
  LET defining == {i \in DOMAIN file : \E r \in Rests(file[i], n) : Defines(file[i], n, r)}
      first == CHOOSE i \in defining : \A j \in defining : i <= j
  IN IF env0[n] # Unset THEN value = env0[n]
     ELSE IF defining = {} THEN value = Unset
     ELSE \A r \in Rests(file[first], n) :
            Defines(file[first], n, r) => value = DocumentedValue(r)

(***************************************************************************)
(* Once the file is loaded every setting has the value that the process    *)
(* environment gave it, even the empty one, or else the value that the     *)
(* first line of the file with its name gives it under the documented      *)
(* grammar: quotes, inline comments, '#' inside a word (LoadDotenv).  The  *)
(* exception is a value that is nothing but a comment.                     *)
(***************************************************************************)
SettingIsDeclared ==
  phase \in {"load", "require", "ready"} =>
    \A n \in Names :
      \/ IsDeclared(n, env[n])
      \/ \E i \in DOMAIN file : \E r \in Rests(file[i], n) :
           Defines(file[i], n, r) /\ OnlyComment(r)

(***************************************************************************)
(* config.go, of the inline comment: it "starts at the first '#' that      *)
(* follows whitespace", so that what is nothing but a comment is empty.    *)
(***************************************************************************)
CommentIsNoValue ==
  phase \in {"load", "require", "ready"} => \A n \in Names : IsDeclared(n, env[n])

(***************************************************************************)
(* A run that starts has a path, a format and a mode the program knows,    *)
(* numbers everywhere, a password, and with --check-ingest both            *)
(* credentials, after all trimming and defaults (Load, RequireNR).         *)
(***************************************************************************)
ReadyIsUsable ==
  phase = "ready" =>
    /\ config.value[PATH] # <<>> /\ config.value[PASSWORD] # <<>>
    /\ config.value[FORMAT] \in {OTLP, DEBUGLOG} /\ config.value[MODE] \in {PDB, CDB}
    /\ \A n \in Numbers : IsNumber(config.value[n])
    /\ checkIngest => config.value[APIKEY] # <<>> /\ config.value[ACCOUNT] # <<>>
=============================================================================
