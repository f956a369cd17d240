-------------------------------- MODULE Alias --------------------------------
(***************************************************************************)
(* How the runner finds its program (internal/runner/resolve.go and New,   *)
(* process.go:48-66): a name on PATH, or an alias that an interactive      *)
(* shell is asked to print.  Text is a sequence of symbols: characters,    *)
(* and as one symbol each the word "alias " that bash prints, the name of  *)
(* the alias with its "=", and an escape sequence (CSI).                   *)
(*                                                                         *)
(* The user's world is chosen once.  What an alias means is a sequence of  *)
(* words, a word a sequence of pieces, quoted or not; the shell keeps it   *)
(* as text and prints that text quoted once more.                          *)
(***************************************************************************)
EXTENDS SequencesExt

CONSTANTS
    Letters,    \* letters, digits and the underscore
    Signs,      \* the other symbols that mean nothing to the shell
    Pieces,     \* what words are written with: [quote, text]
    MaxPieces,  \* bound on the pieces of a word
    MaxWords,   \* bound on the words of an alias
    Programs,   \* the words that name a program on PATH
    Chatter,    \* what rc files write to stdout: [lines, glued]
    OwnArgs     \* the arguments the user gave

SQ == "'"
DQ == "\""
Space == " "
Prefix == "alias "
Token == "name="
CSI == "ESC[m"
Backslash == "\\"

Symbols == Letters \union Signs \union {SQ, DQ, Space, Prefix, Token, CSI, Backslash}

ASSUME AliasAssumption ==
    /\ Pieces \subseteq [quote : {"none", SQ, DQ}, text : Seq(Symbols)]
    /\ \A p \in Pieces : p.quote \notin ToSet(p.text)
    /\ MaxPieces \in Nat /\ MaxWords \in Nat
    /\ Chatter \subseteq [lines : Seq(Seq(Symbols)), glued : Seq(Symbols)]
    /\ OwnArgs \in Seq(Seq(Symbols))

VARIABLES
    world,    \* the user's machine: [onPath, words, gap, style, chatter, rc]
    pc,       \* where resolveBinary is
    shell,    \* the interactive shell
    out,      \* what it wrote to stdout
    program,  \* a program its rc files run holds the shell's stdout
    argv      \* what the runner will start

vars == <<world, pc, shell, out, program, argv>>

Word == BoundedSeq(Pieces, MaxPieces) \ {<<>>}

\* An rc file ends quickly, blocks in the shell itself, or in a program.
World ==
    [onPath : BOOLEAN, words : BoundedSeq(Word, MaxWords), gap : 1 .. 2,
     style : {"bash", "zsh", "none"}, chatter : Chatter, rc : {"quick", "blocks", "program"}]

Init ==
    /\ world \in World
    /\ pc = "lookPath"
    /\ shell = "off" /\ out = <<>>
    /\ program = FALSE
    /\ argv = <<>>

-----------------------------------------------------------------------------
(* The alias as its user means it, and as the shell keeps and prints it:    *)
(* external.                                                                *)

Meaning(word) == FlattenSeq([i \in DOMAIN word |-> word[i].text])

Meant == [i \in DOMAIN world.words |-> Meaning(world.words[i])] \o OwnArgs

WrittenPiece(p) ==
    IF p.quote = "none" THEN p.text ELSE <<p.quote>> \o p.text \o <<p.quote>>

Written(word) == FlattenSeq([i \in DOMAIN word |-> WrittenPiece(word[i])])

Blanks(n) == [j \in 1 .. n |-> Space]

Spaced(words, n) ==
    FlattenSeq([i \in DOMAIN words |->
                   (IF i = 1 THEN <<>> ELSE Blanks(n)) \o Written(words[i])])

Body == Spaced(world.words, world.gap)

\* resolve.go:138-140 says it too: the POSIX way to quote.
Escape(s) ==
    FlattenSeq([i \in DOMAIN s |->
                   IF s[i] = SQ THEN <<SQ, Backslash, SQ, SQ>> ELSE <<s[i]>>])

SingleQuote(s) == <<SQ>> \o Escape(s) \o <<SQ>>

\* zsh quotes only what needs it.
Value ==
    IF world.style = "zsh" /\ ToSet(Body) \intersect {SQ, DQ, Space} = {}
    THEN Body ELSE SingleQuote(Body)

Answer == (IF world.style = "bash" THEN <<Prefix, Token>> ELSE <<Token>>) \o Value

Output == Append(world.chatter.lines, world.chatter.glued \o Answer)

-----------------------------------------------------------------------------
(* From the output to words. *)

StripNothing(line) == line

Strip(line) ==
    FlattenSeq([i \in DOMAIN line |-> IF line[i] = CSI THEN <<>> ELSE <<line[i]>>])

\* strings.TrimSpace
Trim(s) ==
    LET kept == {i \in 1 .. Len(s) : s[i] # Space}
    IN  IF kept = {} THEN <<>> ELSE SubSeq(s, Min(kept), Max(kept))

\* A CSI sequence ends in a letter.
IsWordByte(c) == c \in Letters \union {CSI}

Unquote(s) ==
    IF Len(s) >= 2 /\ s[1] = Last(s) /\ s[1] \in {SQ, DQ} THEN SubSeq(s, 2, Len(s) - 1) ELSE s

\* What one line defines, or nothing.
LineDefinition(raw) ==
    LET clean == Trim(Strip(raw))
        line == Trim(IF clean # <<>> /\ clean[1] = Prefix THEN Tail(clean) ELSE clean)
        idx == SelectInSeq(line, LAMBDA c : c = Token)
    IN  IF idx = 0 \/ (idx > 1 /\ IsWordByte(line[idx - 1])) THEN <<>>
        ELSE Unquote(SubSeq(line, idx + 1, Len(line)))

ParseAliasDefinition(lines) ==
    LET first == SelectInSeq(lines, LAMBDA l : LineDefinition(l) # <<>>)
    IN  IF first = 0 THEN <<>> ELSE LineDefinition(lines[first])

Flush(s) ==
    IF s.inToken THEN [s EXCEPT !.tokens = Append(@, s.cur), !.cur = <<>>, !.inToken = FALSE]
                 ELSE s

ReadUnquoted(s, r) ==
    IF r = Space THEN Flush(s) ELSE [s EXCEPT !.cur = Append(@, r), !.inToken = TRUE]

Read(s, r) ==
    CASE s.quote # "none" -> IF r = s.quote THEN [s EXCEPT !.quote = "none"]
                                            ELSE [s EXCEPT !.cur = Append(@, r)]
      [] s.quote = "none" /\ r \in {SQ, DQ} -> [s EXCEPT !.quote = r, !.inToken = TRUE]
      [] s.quote = "none" /\ r = Space -> Flush(s)
      [] s.quote = "none" /\ r \notin {SQ, DQ, Space} ->
            [s EXCEPT !.cur = Append(@, r), !.inToken = TRUE]

Start == [tokens |-> <<>>, cur |-> <<>>, quote |-> "none", inToken |-> FALSE]

\* The loop of splitArgs, up to the end of s.
ReadAll(s) ==
    LET read[i \in 0 .. Len(s)] == IF i = 0 THEN Start ELSE Read(read[i - 1], s[i])
    IN  read[Len(s)]

SplitArgs(s) == Flush(ReadAll(s)).tokens

-----------------------------------------------------------------------------
(* resolveBinary *)

LookPath ==
    /\ pc = "lookPath" /\ world.onPath
    /\ pc' = "found" /\ argv' = <<<<Token>>>> \o OwnArgs
    /\ UNCHANGED <<world, shell, out, program>>

NoShell ==
    /\ pc = "lookPath" /\ ~ world.onPath /\ world.style = "none"
    /\ pc' = "failed"
    /\ UNCHANGED <<world, shell, out, program, argv>>

\* $SHELL -ic 'alias <name>'
Ask ==
    /\ pc = "lookPath" /\ ~ world.onPath /\ world.style # "none"
    /\ pc' = "asked" /\ shell' = "running"
    /\ program' = (world.rc = "program")
    /\ UNCHANGED <<world, out, argv>>

\* The shell reads its rc files, answers and exits.
ShellExits ==
    /\ shell = "running" /\ ~ program /\ world.rc # "blocks"
    /\ shell' = "exited"
    /\ out' = IF world.words = <<>> THEN world.chatter.lines ELSE Output
    /\ UNCHANGED <<world, pc, program, argv>>

ProgramExits ==
    /\ program
    /\ program' = FALSE
    /\ UNCHANGED <<world, pc, shell, out, argv>>

NoTimeout == shell = "running" /\ UNCHANGED vars

\* After three seconds, or of a slow shell: the context kills the shell, and
\* nothing else.
Timeout ==
    /\ shell = "running"
    /\ shell' = "killed"
    /\ UNCHANGED <<world, pc, out, program, argv>>

\* Output returns when the shell is gone and nobody holds its stdout, with an
\* error when it was killed or knows no such alias.
Return ==
    /\ pc = "asked" /\ shell \in {"exited", "killed"} /\ ~ program
    /\ pc' = IF shell = "killed" \/ world.words = <<>> THEN "failed" ELSE "answered"
    /\ UNCHANGED <<world, shell, out, program, argv>>

Tokens == SplitArgs(ParseAliasDefinition(out))

ExpandUnchecked ==
    /\ pc = "answered"
    /\ pc' = "found" /\ argv' = Tokens \o OwnArgs
    /\ UNCHANGED <<world, shell, out, program>>

Expand ==
    /\ pc = "answered"
    /\ IF Tokens # <<>> /\ Tokens[1] \in Programs
       THEN pc' = "found" /\ argv' = Tokens \o OwnArgs
       ELSE pc' = "failed" /\ argv' = argv
    /\ UNCHANGED <<world, shell, out, program>>

Resolved == pc \in {"found", "failed"} /\ UNCHANGED vars

Next ==
    \/ LookPath \/ NoShell \/ Ask
    \/ ShellExits \/ ProgramExits \/ Timeout
    \/ Return \/ Expand \/ Resolved

\* The context fires and a read that has ended returns; nobody answers for a
\* program that waits for its user.
Spec == Init /\ [][Next]_vars /\ WF_vars(Timeout) /\ WF_vars(Return)

-----------------------------------------------------------------------------
(* Properties *)

\* Types; what is started has been looked up.
TypeOK ==
    /\ pc \in {"lookPath", "asked", "answered", "found", "failed"}
    /\ shell \in {"off", "running", "exited", "killed"}
    /\ program \in BOOLEAN
    /\ pc = "found" => argv[1] \in Programs \union {<<Token>>}

\* No single quote, backslash or escape sequence in the alias, unquoted text
\* that is one word, nothing but escape sequences and spaces before the shell's
\* answer, and no other line that defines the name.
PlainAliases ==
    /\ \A p \in Pieces :
        /\ p.quote # SQ
        /\ ToSet(p.text) \intersect {SQ, DQ, Backslash, CSI} = {}
        /\ p.quote = "none" => p.text # <<>> /\ ToSet(p.text) \intersect {Space, Prefix} = {}
    /\ \A c \in Chatter :
        /\ ToSet(c.glued) \subseteq {CSI, Space}
        /\ \A i \in DOMAIN c.lines : LineDefinition(c.lines[i]) = <<>>

\* README.md:295, resolve.go:152-155: an alias runs what the shell would run,
\* word for word, with the user's arguments after its own, however it is
\* written, printed and surrounded.
RunsTheAlias == pc = "found" /\ ~ world.onPath => argv = Meant

\* resolve.go:42-69: a name is given up only when it is not on PATH and its
\* alias is unknown, is no program's, or the shell has not told in time.
FailsOnlyWhenMust ==
    pc = "failed" =>
        /\ ~ world.onPath
        /\ \/ world.style = "none" \/ world.words = <<>> \/ shell = "killed"
           \/ Meant[1] \notin Programs

\* resolve.go:79: an rc file that blocks does not keep the lookup from ending,
\* unless it blocks in a program that holds the shell's stdout.
LookupEnds == (pc = "asked" /\ ~ program) ~> pc # "asked"
=============================================================================
