----------------------------- MODULE Invocation -----------------------------
(***************************************************************************)
(* Which tool was asked for: the argument vector as the kernel shows it in *)
(* /proc/self/cmdline, the SUDO_COMMAND line as sudo writes it, and what   *)
(* the program makes of the two.                                           *)
(*                                                                         *)
(* A text is a sequence of characters; a file name is one character, and   *)
(* "s" is the name of secure-sudoers itself.  A run is one invocation.     *)
(***************************************************************************)
EXTENDS Integers, Sequences, SequencesExt, FiniteSets

CONSTANTS Character,      \* what a C string is made of: every byte but NUL
          Argvs,          \* the argument vectors considered
          SudoCommands(_) \* the values of SUDO_COMMAND considered with each

VARIABLES argv,         \* the arguments the program was started with
          sudoCommand,  \* the variable SUDO_COMMAND, or Unset
          outcome       \* Pending, or what parse_invocation returned

invocation == <<argv, sudoCommand, outcome>>


Unset == <<"unset">>   \* also a value that is not Unicode: std::env::var fails
Malformed == <<"malformed">>       \* a token that could not be read
Broken == <<Malformed>>            \* a list of tokens that could not
Pending == [error |-> "pending"]

Space == " "
Slash == "/"
Dot == "."
Backslash == "\\"
Single == "'"
Double == "\""
Nul == "0"
NotUnicode == "?"      \* a byte that is no part of UTF-8

\* The last three are no bytes but part of the values above.
ASSUME CharacterAssumption ==
    /\ {Space, Slash, Dot, Backslash, Single, Double, NotUnicode, "l", "s"} \subseteq Character
    /\ Character \cap {Nul, "unset", "malformed", "missing"} = {}

Word == Seq(Character)
ASSUME ArgvsAssumption == Argvs \subseteq Seq(Word)

(***************************************************************************)
(* split_sudo_command_prefix_tokens, one character at a time               *)
(***************************************************************************)
StartOfLine == [tokens |-> <<>>, token |-> <<>>, open |-> FALSE, quote |-> "", escaped |-> FALSE]

Literal(st, c) == [st EXCEPT !.token = Append(@, c), !.open = TRUE, !.escaped = FALSE]

\* Mistake: a backslash escapes inside single quotes too.
FeedEscapingEverywhere(st, c) ==
    CASE st.escaped -> Literal(st, c)
      [] ~st.escaped /\ c = Backslash -> [st EXCEPT !.escaped = TRUE, !.open = TRUE]
      [] ~st.escaped /\ c # Backslash /\ st.quote # "" ->
            IF c = st.quote THEN [st EXCEPT !.quote = ""] ELSE Literal(st, c)
      [] OTHER ->
            IF c \in {Single, Double} THEN [st EXCEPT !.quote = c, !.open = TRUE]
            ELSE IF c # Space THEN Literal(st, c)
            ELSE IF st.open THEN [StartOfLine EXCEPT !.tokens = Append(st.tokens, st.token)]
            ELSE st

\* The reader of one character: escaped, quoted, or plain.  A blank ends a token.
Feed(st, c) ==
    LET escape == c = Backslash /\ st.quote # Single
    IN  CASE st.escaped -> Literal(st, c)
          [] ~st.escaped /\ escape -> [st EXCEPT !.escaped = TRUE, !.open = TRUE]
          [] ~st.escaped /\ ~escape /\ st.quote # "" ->
                IF c = st.quote THEN [st EXCEPT !.quote = ""] ELSE Literal(st, c)
          [] OTHER ->
                IF c \in {Single, Double} THEN [st EXCEPT !.quote = c, !.open = TRUE]
                ELSE IF c # Space THEN Literal(st, c)
                ELSE IF st.open THEN [StartOfLine EXCEPT !.tokens = Append(st.tokens, st.token)]
                ELSE st

EndOfLine(st) ==
    IF st.escaped \/ st.quote # "" THEN Broken
    ELSE IF st.open THEN Append(st.tokens, st.token) ELSE st.tokens

\* The first n tokens: nothing behind them is read.
FeedUpTo(n, st, c) == IF Len(st.tokens) = n THEN st ELSE Feed(st, c)

ReadLine(line, n) ==
    LET after[i \in 0 .. Len(line)] ==
            IF i = 0 THEN StartOfLine ELSE FeedUpTo(n, after[i - 1], line[i])
    IN  after[Len(line)]

Split(line, n) ==
    LET last == ReadLine(line, n)
    IN  IF Len(last.tokens) = n THEN last.tokens ELSE EndOfLine(last)

(***************************************************************************)
(* File names                                                              *)
(***************************************************************************)
\* A "." between slashes stands for no name; nor does one that is the whole path.
Alone(path, i) ==
    /\ path[i] = Dot
    /\ i > 1 => path[i - 1] = Slash
    /\ i < Len(path) => path[i + 1] = Slash
Letters(path) == {i \in DOMAIN path : path[i] # Slash /\ ~Alone(path, i)}

\* Path::file_name: the last name, behind which slashes and "." do not count;
\* none (here empty) if there is no name or the last one is "..".
FileName(path) ==
    LET last  == Max(Letters(path))
        first == Max({0} \cup {i \in 1 .. last : path[i] = Slash}) + 1
    IN  IF Letters(path) = {} \/ SubSeq(path, first, last) = <<Dot, Dot>> THEN <<>>
        ELSE SubSeq(path, first, last)

\* basename: a token without a file name is taken whole.
Basename(token) == IF FileName(token) = <<>> THEN token ELSE FileName(token)

IsWrapper(path) == Basename(path) = <<"s">>
HasSlash(path) == Slash \in Range(path)

(***************************************************************************)
(* delegated_command_token_from_sudo_command: the command, or the argument *)
(* after secure-sudoers                                                    *)
(***************************************************************************)
NoCommand == <<"missing">>

DelegatedToken(line) ==
    LET first == Split(line, 1)
        both == Split(line, 2)
    IN  IF first = Broken THEN Malformed
        ELSE IF first = <<>> THEN <<>>
        ELSE IF ~IsWrapper(first[1]) THEN first[1]
        ELSE IF both = Broken THEN Malformed
        ELSE IF Len(both) < 2 THEN NoCommand
        ELSE both[2]

(***************************************************************************)
(* parse_proc_self_cmdline_bytes: every argument ends with a NUL           *)
(***************************************************************************)
Cut(chunks, byte) ==
    IF byte = Nul THEN Append(chunks, <<>>)
    ELSE [chunks EXCEPT ![Len(chunks)] = Append(@, byte)]

Chunks(bytes) ==
    LET after[i \in 0 .. Len(bytes)] ==
            IF i = 0 THEN << <<>> >> ELSE Cut(after[i - 1], bytes[i])
    IN  after[Len(bytes)]

Arguments(bytes, chunks) == IF chunks = <<>> \/ NotUnicode \in Range(bytes) THEN Broken ELSE chunks

\* Only the empty chunk behind the last NUL is dropped.
ParseCmdline(bytes) ==
    LET chunks == Chunks(bytes)
    IN  Arguments(bytes, IF Last(chunks) = <<>> THEN Front(chunks) ELSE chunks)

\* What the kernel shows in /proc/self/cmdline.
KernelCmdline(args) == FlattenSeq([i \in DOMAIN args |-> Append(args[i], Nul)])

\* read_proc_self_cmdline, or std::env::args when that fails for any reason;
\* the latter panics at an argument that is not Unicode.
Unicode(args) == \A i \in DOMAIN args : NotUnicode \notin Range(args[i])
CurrentArgv(args, procReadable) ==
    IF procReadable /\ ParseCmdline(KernelCmdline(args)) # Broken THEN ParseCmdline(KernelCmdline(args))
    ELSE IF Unicode(args) THEN args
    ELSE Broken

(***************************************************************************)
(* parse_invocation_internal                                               *)
(***************************************************************************)
Invoked(tool, args) == [tool |-> tool, args |-> args]
Spoofing(why) == [error |-> why]

\* The tool named by the arguments, as it was written and by its name, and the
\* arguments left.
NamedByArgv(args) ==
    IF ~IsWrapper(args[1]) THEN [token |-> args[1], name |-> FileName(args[1]), args |-> Tail(args)]
    ELSE IF Len(args) < 2 THEN [token |-> <<>>, name |-> <<>>, args |-> <<>>]
    ELSE [token |-> args[2], name |-> Basename(args[2]), args |-> SubSeq(args, 3, Len(args))]

\* Mistake: the token is compared with the tool's name as it was written.
ParseComparingPaths(args, line) ==
    LET named == NamedByArgv(args)
        token == DelegatedToken(line)
    IN  IF args = <<>> THEN Invoked(<<>>, <<>>)
        ELSE IF line = Unset THEN Invoked(named.name, named.args)
        ELSE IF token = Malformed THEN Spoofing("invalid prefix")
        ELSE IF token \in {NoCommand, <<>>} THEN Spoofing("missing command")
        ELSE IF token # named.token THEN Spoofing("mismatch")
        ELSE Invoked(Basename(token), named.args)

ParseInvocation(args, line) ==
    LET named == NamedByArgv(args)
        token == DelegatedToken(line)
    IN  IF args = <<>> THEN Invoked(<<>>, <<>>)
        ELSE IF line = Unset THEN Invoked(named.name, named.args)
        ELSE IF token = Malformed THEN Spoofing("invalid prefix")
        ELSE IF token \in {NoCommand, <<>>} THEN Spoofing("missing command")
        ELSE IF Basename(token) # Basename(named.token) THEN Spoofing("mismatch")
        ELSE Invoked(Basename(token), named.args)

(***************************************************************************)
(* One invocation                                                          *)
(***************************************************************************)
InvocationInit ==
    /\ argv \in Argvs
    /\ sudoCommand \in SudoCommands(argv)
    /\ outcome = Pending

Identify(procReadable) ==
    /\ outcome = Pending
    /\ outcome' = LET args == CurrentArgv(argv, procReadable)
                  IN  IF args = Broken THEN Spoofing("panic") ELSE ParseInvocation(args, sudoCommand)
    /\ UNCHANGED <<argv, sudoCommand>>

(***************************************************************************)
(* Properties                                                              *)
(***************************************************************************)
\* A text in single quotes, in double quotes, with every character escaped.
Quotings == {"single", "double", "backslash"}
Escaped(how, c) ==
    CASE how = "single" -> IF c = Single THEN <<Single, Backslash, Single, Single>> ELSE <<c>>
      [] how = "double" -> IF c \in {Double, Backslash} THEN <<Backslash, c>> ELSE <<c>>
      [] how = "backslash" -> <<Backslash, c>>

Quoted(how, word) ==
    LET body == FlattenSeq([i \in DOMAIN word |-> Escaped(how, word[i])])
        around == IF how = "double" THEN <<Double>> ELSE IF how = "single" \/ word = <<>> THEN <<Single>> ELSE <<>>
    IN  around \o body \o around

JoinWords(words) ==
    FlattenSeq([i \in DOMAIN words |-> IF i = 1 THEN words[i] ELSE <<Space>> \o words[i]])

\* Words quoted in any of the three ways come back as they were.
SplitInvertsQuoting ==
    \A n \in 1 .. 2 : \A how \in [1 .. n -> Quotings] :
        Len(argv) >= n =>
            Split(JoinWords([i \in 1 .. n |-> Quoted(how[i], argv[i])]), n) = SubSeq(argv, 1, n)

\* The first words are found whatever follows them: an argument with an open
\* quote does not keep the tool from being identified.
LaterTextIgnored ==
    \A n \in 1 .. 2 :
        Len(argv) > n =>
            Split(JoinWords([i \in 1 .. Len(argv) |-> IF i <= n THEN Quoted("single", argv[i]) ELSE argv[i]]), n)
                = SubSeq(argv, 1, n)

\* The arguments, empty ones among them, are read as the kernel was given them.
CmdlineInvertsKernel == (argv # <<>> /\ Unicode(argv)) => CurrentArgv(argv, TRUE) = argv

\* What the kernel and sudo wrote is read back word by word, whatever blanks,
\* quotes and backslashes are in it.
WordsReadBack == SplitInvertsQuoting /\ LaterTextIgnored /\ CmdlineInvertsKernel

\* sudo writes the path of the command and the arguments with a blank between
\* them, unquoted.
Plain(word) == word # <<>> /\ Range(word) \cap {Space, Backslash, Single, Double, NotUnicode} = {}
SudoLine(path, args) == JoinWords(<<path>> \o Tail(args))

\* A command run by sudo is identified whatever its arguments, both by its own
\* entry point, however its path was written, and through secure-sudoers.
SudoRunIdentified ==
    /\ outcome # Pending /\ argv # <<>> /\ Unicode(argv)
    /\ Plain(argv[1]) /\ FileName(argv[1]) # <<>>
    /\ IsWrapper(argv[1]) => Len(argv) > 1 /\ Plain(argv[2])
    /\ sudoCommand = SudoLine(<<Slash, "l", Slash>> \o FileName(argv[1]), argv)
    => outcome = Invoked(Basename(NamedByArgv(argv).token), NamedByArgv(argv).args)
=============================================================================
