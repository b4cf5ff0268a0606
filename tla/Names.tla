-------------------------------- MODULE Names --------------------------------
(***************************************************************************)
(* How the name of a file gets to the host and back: the path arithmetic   *)
(* of the web application (lib.ts, FilesApp), the quoting of the adapter   *)
(* (shell.ts), the wrapper of sudo (elevation.ts), and the parsing of what *)
(* find prints (debian.ts, result.ts).  Pure functions, checked against    *)
(* what a POSIX shell and find do with such names.                         *)
(*                                                                         *)
(* A string is a sequence of characters; fixed text that no step looks     *)
(* into is one character.                                                  *)
(***************************************************************************)
EXTENDS Naturals, Sequences, FiniteSets, SequencesExt

CONSTANT MaxName  \* bound on the length of the names the properties range over

ASSUME MaxNameAssumption == MaxName \in Nat \ {0}

\* Step along s, from base, by position: the library's folds go through the subsets of the
\* positions, and are too slow for strings.
Along(Step(_, _), base, s) ==
  LET f[i \in 0..Len(s)] == IF i = 0 THEN base ELSE Step(f[i - 1], s[i]) IN f[Len(s)]

Concat(parts) == Along(\o, <<>>, parts)

\* 0 when c is not in s.
LastIndexOf(s, c) == SelectLastInSeq(s, LAMBDA d : d = c)

\* The part of s before the last c.
UpTo(s, c) == SubSeq(s, 1, LastIndexOf(s, c) - 1)
Beyond(s, c) == SubSeq(s, LastIndexOf(s, c) + 1, Len(s))

Split(s, c) ==
  LET Take1(parts, d) ==
        IF d = c THEN Append(parts, <<>>) ELSE Front(parts) \o <<Append(Last(parts), d)>>
  IN  Along(Take1, <<<<>>>>, s)

Joined(parts, c) == Tail(Concat([i \in DOMAIN parts |-> <<c>> \o parts[i]]))

----------------------------------------------------------------------------
(* Paths and names.                                                        *)

TrimSlashes(file) == SubSeq(file, 1, SelectLastInSeq(file, LAMBDA c : c # "/"))

joinPath(dir, name) ==
  IF dir = <<"/">> THEN <<"/">> \o name ELSE TrimSlashes(dir) \o <<"/">> \o name

parentPath(file) ==
  LET up == UpTo(TrimSlashes(file), "/") IN IF up = <<>> THEN <<"/">> ELSE up

baseName(file) == Beyond(file, "/")

\* The name stat's answer is given: the last part of the path it was asked about.
StatName(file) == baseName(TrimSlashes(file))

\* Mutant: a hidden file is all extension.
HasExtensionAnywhere(name) == LastIndexOf(name, ".") > 0

\* A leading dot begins no extension.
HasExtension(name) == LastIndexOf(name, ".") > 1

\* " (n)" before the extension.
Suffixed(name, n) ==
  LET suffix == <<" ", "(", ToString(n), ")">>
  IN  IF HasExtension(name) THEN UpTo(name, ".") \o suffix \o <<".">> \o Beyond(name, ".")
      ELSE name \o suffix

\* uniqueName, of which Files has what the order of events needs.
UniqueName(name, existing) ==
  IF name \notin existing THEN name
  ELSE LET free == {n \in 2..Cardinality(existing) + 2 : Suffixed(name, n) \notin existing}
       IN  Suffixed(name, CHOOSE n \in free : \A m \in free : n <= m)

----------------------------------------------------------------------------
(* Commands, and the shell that reads them.                                *)

\* Mutant: the quote in the argument is escaped, but not from within quotes.
quoteInside(arg) ==
  <<"'">> \o Concat([i \in DOMAIN arg |->
                           IF arg[i] = "'" THEN <<"\\", "'">> ELSE <<arg[i]>>]) \o <<"'">>

quote(arg) ==
  <<"'">> \o Concat([i \in DOMAIN arg |->
                           IF arg[i] = "'" THEN <<"'", "\\", "'", "'">> ELSE <<arg[i]>>]) \o <<"'">>

\* The commands of the adapter: words of its own, and quoted paths.
FileCommand(words, files) ==
  Joined([i \in DOMAIN words |-> <<words[i]>>] \o [i \in DOMAIN files |-> quote(files[i])], " ")

\* writeFile, a pipeline with a redirection.
WriteCommand(b64, file) ==
  <<"printf %s", " ">> \o quote(b64) \o <<" ", "|", " ", "base64 -d", " ", ">", " ">> \o quote(file)

withElevation(command) == <<"sudo -S -p ''", " ", "sh -c", " ">> \o quote(command)

\* What a shell takes a character for: s.mode is where it is in the line.
Shell(s, c) ==
  LET Word(w) == [words |-> s.words, word |-> w, mode |-> "word"]
      Ended == IF s.mode = "blank" THEN s.words ELSE Append(s.words, s.word)
      Special(ws) == [words |-> ws, word |-> <<>>, mode |-> "blank"]
  IN  CASE s.mode = "escape" -> Word(Append(s.word, c))
        [] s.mode = "quotes" -> IF c = "'" THEN Word(s.word) ELSE [s EXCEPT !.word = Append(@, c)]
        [] s.mode \in {"blank", "word"} ->
             CASE c = "'" -> [s EXCEPT !.mode = "quotes"]
               [] c = "\\" -> [s EXCEPT !.mode = "escape"]
               [] c = " " -> Special(Ended)
               [] c \in {"|", ">"} -> Special(Append(Ended, <<"operator", c>>))
               [] c = "$" -> Word(Append(s.word, "expanded"))
               [] OTHER -> Word(Append(s.word, c))

ShellAfter(s, line) == Along(Shell, s, line)

\* The words and operators of a command line.
Words(line) ==
  LET s == ShellAfter([words |-> <<>>, word |-> <<>>, mode |-> "blank"], line \o <<" ">>)
  IN  IF s.mode = "blank" THEN s.words ELSE <<"unterminated">>

----------------------------------------------------------------------------
(* Listings.                                                               *)

\* What find prints for a file: six fields and the name, tabs between them.
FoundLine(name) == Joined([i \in 1..6 |-> <<"field">>] \o <<name>>, "\t") \o <<"\n">>
Found(names) == Concat([i \in DOMAIN names |-> FoundLine(names[i])])

\* Mutant: a tab in the name is taken for the end of it.
FindLineNameOnly(parts) == parts[7]

\* The name parseFindLine makes of the parts of a line.
FindLineName(parts) == Joined(SubSeq(parts, 7, Len(parts)), "\t")

\* parseListDir under runParsed; "degraded" when parseFindLine throws on a line.
parseListDir(stdout) ==
  LET lines == SelectSeq(Split(stdout, "\n"), LAMBDA line : line # <<>>)
      parts == [i \in DOMAIN lines |-> Split(lines[i], "\t")]
  IN  IF \A i \in DOMAIN parts : Len(parts[i]) >= 7
      THEN [kind |-> "ok", value |-> [i \in DOMAIN parts |-> FindLineName(parts[i])]]
      ELSE [kind |-> "degraded", value |-> <<>>]

----------------------------------------------------------------------------
(* What Spelling relies on, for all short names of the characters that     *)
(* matter.                                                                 *)

NamesOf(chars, n) == BoundedSeq(chars, n) \ {<<>>}

\* What the shell makes of line, and of the line that sudo runs it with.
Reads(line, words) ==
  /\ Words(line) = words
  /\ Words(withElevation(line)) = <<<<"sudo -S -p ''">>, <<"sh -c">>, line>>

MovesRead ==
  \A from \in NamesOf({"a", "'", "\\", " ", "$", ">"}, MaxName) :
  \A to \in NamesOf({"'", "\\", " "}, MaxName - 1) :
    Reads(FileCommand(<<"mv", "-n">>, <<from, to>>), <<<<"mv">>, <<"-n">>, from, to>>)

WritesRead ==
  \A file \in NamesOf({"a", "'", "\\", " ", "$", ">"}, MaxName) :
    Reads(WriteCommand(<<"b64">>, file),
          <<<<"printf %s">>, <<"b64">>, <<"operator", "|">>, <<"base64 -d">>,
            <<"operator", ">">>, file>>)

PathsCompose ==
  \A dir \in {<<"/">> \o d : d \in BoundedSeq({"a", "/"}, MaxName)} :
  \A name \in NamesOf({"a", "."}, MaxName) :
    LET file == joinPath(dir, name) IN
    /\ parentPath(file) = IF TrimSlashes(dir) = <<>> THEN <<"/">> ELSE TrimSlashes(dir)
    /\ baseName(file) = name /\ StatName(file) = name

FreeNamesFit ==
  \A name \in NamesOf({"a", ".", " "}, MaxName) :
    LET second == UniqueName(name, {name})
        third == UniqueName(name, {name, second})
    IN  \A existing \in SUBSET {name, second, third, UniqueName(second, {second})} :
          LET new == UniqueName(name, existing) IN
          /\ new \notin existing
          /\ Head(new) = Head(name)
          /\ HasExtension(name) => Beyond(new, ".") = Beyond(name, ".")

HasNewline(name) == "\n" \in {name[i] : i \in DOMAIN name}

PlainNamesListed ==
  \A a, b \in NamesOf({"a", "\t", " "}, MaxName) :
    parseListDir(Found(<<a, b>>)) = [kind |-> "ok", value |-> <<a, b>>]

NewlinesGiveUp ==
  \A a, b \in NamesOf({"a", "\t", "\n"}, MaxName) :
    LET got == parseListDir(Found(<<a, b>>))
        Shown(name) == Split(name, "\n")[1]
    IN  HasNewline(a) => \/ got.kind = "degraded"
                         \/ got.value = <<Shown(a), Shown(b)>>
=============================================================================
