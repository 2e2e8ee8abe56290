------------------------------- MODULE WebPage -------------------------------
(***************************************************************************)
(* The page around the volume (ui/app.js): the terminal, the list of       *)
(* files, the inline editor and reader, the tutorial, the format dialog    *)
(* and the timers.                                                         *)
(*                                                                         *)
(* Every handler runs to its end before another one starts; what a handler *)
(* leaves to setTimeout happens later, between any two others.             *)
(*                                                                         *)
(* Abstractions.  What is only drawn from the volume after each command    *)
(* (header, cards, tables) is left out; module WebVolume has the map.  A   *)
(* hidden editor keeps no text, for opening it overwrites the text.  Lines *)
(* of the terminal, history and records are in module WebRecords.  An      *)
(* empty line and clear return null, which is shown as a refused command:  *)
(* neither moves the tutorial.                                             *)
(***************************************************************************)
EXTENDS WebVolume, CommandLine

CONSTANTS
  ParseInt(_),  \* parseInt of a word: a number or NaN
  ParseMode(_), \* parseInt(word, 8) & 0o777
  Space,        \* the blank that joins words
  Quotes,       \* the double quote
  NoName,       \* null, where a name is expected
  Line,         \* lines typed into the terminal
  NewName,      \* names typed into the field of new files
  Typed,        \* texts typed into the editor
  DialogSize,   \* sizes and block sizes entered in the format dialog
  DialogBlock,
  LeastSize,    \* 4096, the smallest size the dialog takes
  MaxTimers     \* bound: timers that run at the same time

ASSUME PageAssumption ==
  /\ Space \in Gap
  /\ Quotes \in Mark
  /\ Gap \cap Mark = {}
  /\ NoMark \notin Char \cup Mark
  /\ NoName \notin AnyName
  /\ LeastSize \in Nat
  /\ MaxTimers \in Nat \ {0}
  /\ DialogSize \cup DialogBlock \subseteq Int \cup {NaN}

VARIABLES
  controls,     \* the terminal and the file controls are enabled
  writeTarget,  \* the file the editor writes to
  editor,       \* the inline editor: shown, text and the append box
  reader,       \* the inline reader is shown
  tutStep,      \* tutStep
  banner,       \* the step the banner shows as the active one
  backTimers,   \* timers of doFormat that set the tutorial back
  launchTimers, \* timers of fsck that launch confetti
  clearTimers,  \* timers of launchConfetti that clear it away
  confetti      \* there is confetti on the page

pageVars == <<writeTarget, editor, reader>>
tutVars  == <<tutStep, banner>>
timeVars == <<backTimers, launchTimers, clearTimers, confetti>>
allVars  == <<vars, controls, pageVars, tutVars, timeVars>>

Hidden == [shown |-> FALSE, text |-> <<>>, append |-> FALSE]

PageInit ==
  /\ Init
  /\ controls = FALSE
  /\ writeTarget = NoName
  /\ editor = Hidden
  /\ reader = FALSE
  /\ tutStep = 0
  /\ banner = 0
  /\ backTimers = 0
  /\ launchTimers = 0
  /\ clearTimers = 0
  /\ confetti = FALSE

-----------------------------------------------------------------------------
(* Commands.                                                               *)

OneArg   == {"create", "rm", "delete", "read", "stat"}
TwoArgs  == {"format", "rename", "cp", "chmod", "truncate"}
TextArgs == {"write", "append"}
NoArgs   == {"ls", "statfs", "fsck", "perf", "help", "clear"}
CmdWord  == OneArg \cup TwoArgs \cup TextArgs \cup NoArgs

\* The commands that take no arguments ignore them.
WrongArgs(cmd, n) ==
  \/ cmd \in OneArg /\ n # 1
  \/ cmd \in TwoArgs /\ n # 2
  \/ cmd \in TextArgs /\ n < 2
  \/ cmd \notin CmdWord

\* The arguments after the first one, as the text to write.
TextOf(args) == Stripped(Join(Tail(args), Space))

\* parseAndRun of a line that has a word: cmd is the first, args the others.
Call(cmd, args) ==
  \/ cmd = "format"          /\ Format(ParseInt(args[1]), ParseInt(args[2]))
  \/ cmd = "create"          /\ Create(args[1])
  \/ cmd \in {"rm", "delete"} /\ Delete(args[1])
  \/ cmd = "write"           /\ Write(args[1], TextOf(args))
  \/ cmd = "append"          /\ AppendTo(args[1], TextOf(args))
  \/ cmd = "read"            /\ Read(args[1])
  \/ cmd = "rename"          /\ Rename(args[1], args[2])
  \/ cmd = "cp"              /\ Copy(args[1], args[2])
  \/ cmd = "stat"            /\ Stat(args[1])
  \/ cmd = "chmod"           /\ Chmod(args[1], ParseMode(args[2]))
  \/ cmd = "truncate"        /\ Truncate(args[1], ParseInt(args[2]))
  \/ cmd = "ls"              /\ Ls
  \/ cmd = "statfs"          /\ Statfs
  \/ cmd = "fsck"            /\ Fsck
  \/ cmd \in {"perf", "help"} /\ Ok("none", <<>>) /\ UNCHANGED FS
  \/ cmd = "clear"           /\ Refuse("none")

\* A name of a command is one token; any other first word is no command.
Parse(line) ==
  LET words == Split(Trim(line))
      args  == Tail(words)
  IN  \/ /\ words = <<>> \/ Len(words[1]) # 1 \/ WrongArgs(words[1][1], Len(args))
         /\ Refuse("none")
      \/ /\ words # <<>>
         /\ Len(words[1]) = 1
         /\ ~WrongArgs(words[1][1], Len(args))
         /\ Call(words[1][1], args)

-----------------------------------------------------------------------------
(* The tutorial.                                                           *)

Advance(step) == tutStep' = step /\ banner' = step

HasFiles(fs) == DOMAIN fs # {}

\* A bug: every later command that works advances it as well.
UpdateTutorialOn(result) ==
  IF result.ok /\ result.cmd = "format" /\ tutStep = 0
  THEN Advance(1)
  ELSE IF result.ok /\ tutStep >= 1 /\ HasFiles(files')
       THEN Advance(tutStep + 1)
       ELSE UNCHANGED tutVars

\* updateTutorial with what the command returned.
UpdateTutorial(result) ==
  IF result.ok /\ result.cmd = "format" /\ tutStep = 0
  THEN Advance(1)
  ELSE IF result.ok /\ tutStep = 1 /\ HasFiles(files')
       THEN Advance(2)
       ELSE UNCHANGED tutVars

-----------------------------------------------------------------------------
(* Running a line.                                                         *)

\* A bug: the controls are left as they are.
RefreshLess == UpdateTutorial(reply') /\ UNCHANGED controls

\* refreshAll after a command: the tutorial, then enableControls.
Refresh == UpdateTutorial(reply') /\ controls' = formatted'

\* A clean fsck sets the timer of the confetti.
Celebrate ==
  /\ launchTimers' = launchTimers + (IF reply'.cmd = "fsck" /\ reply'.ok THEN 1 ELSE 0)
  /\ launchTimers' + clearTimers + backTimers <= MaxTimers

\* runCmd, without what becomes of the editor and of the dialog.
RunCmd(line) ==
  /\ Parse(line)
  /\ Refresh
  /\ Celebrate
  /\ UNCHANGED <<clearTimers, confetti>>

\* submitCmd: an empty line does nothing.
Submit(line) ==
  /\ controls
  /\ Trim(line) # <<>>
  /\ RunCmd(Trim(line))
  /\ UNCHANGED <<pageVars, backTimers>>

Words(cmd, name) == <<cmd, Space>> \o name

\* quickCreate: the name is put into the line as it is.
QuickCreate(name) ==
  /\ controls
  /\ Trim(name) # <<>>
  /\ RunCmd(Words("create", Trim(name)))
  /\ UNCHANGED <<pageVars, backTimers>>

\* The buttons of a row of the file list.
Listed == {files[i].name : i \in DOMAIN files}

RowButton(cmd, name) ==
  /\ RunCmd(Words(cmd, name))
  /\ UNCHANGED <<pageVars, backTimers>>

\* The words after the first one of the lines that are typed.
Entered  == {Trim(line) : line \in Line} \cup {Words("create", Trim(name)) : name \in NewName}
Argument == UNION {{Split(Trim(line))[k] : k \in 2 .. Len(Split(Trim(line)))} : line \in Entered}

\* Whatever is typed, the names of commands included, may be in a content; a
\* word is a name; parseInt makes a number or NaN of it.
ASSUME LineAssumption ==
  /\ CmdWord \cup {Space, Quotes} \subseteq Char
  /\ CmdWord \cap (Gap \cup Mark) = {}
  /\ Line \cup NewName \cup Typed \cup AnyName \subseteq Seq(Char)
  /\ <<>> \notin AnyName
  /\ \A w \in Argument :
       w \in AnyName /\ ParseInt(w) \in Int \cup {NaN} /\ ParseMode(w) \in Perm

-----------------------------------------------------------------------------
(* Editor and reader.                                                      *)

ContentOf(name) ==
  IF Holders(name) = {}
  THEN <<>>
  ELSE files[CHOOSE i \in DOMAIN files : Found(name, i)].content

OpenEditor(name) ==
  /\ writeTarget' = name
  /\ editor' = [shown |-> TRUE, text |-> ContentOf(name), append |-> FALSE]
  /\ reader' = FALSE
  /\ UNCHANGED <<vars, controls, tutVars, timeVars>>

Type(text, append) ==
  /\ editor.shown
  /\ editor' = [shown |-> TRUE, text |-> text, append |-> append]
  /\ UNCHANGED <<vars, controls, writeTarget, reader, tutVars, timeVars>>

Close == editor' = Hidden /\ writeTarget' = NoName

CloseEditor ==
  /\ editor.shown
  /\ Close
  /\ UNCHANGED <<vars, controls, reader, tutVars, timeVars>>

\* A bug: the text is not put in quotes.
SaveLineBare(name, text, append) ==
  Words(IF append THEN "append" ELSE "write", name) \o <<Space>> \o text

\* The line doInlineWrite makes.
SaveLine(name, text, append) ==
  Words(IF append THEN "append" ELSE "write", name)
    \o <<Space, Quotes>> \o text \o <<Quotes>>

\* doInlineWrite: whatever the command answers, the editor closes.
Save ==
  /\ editor.shown
  /\ writeTarget # NoName
  /\ RunCmd(SaveLine(writeTarget, editor.text, editor.append))
  /\ Close
  /\ UNCHANGED <<reader, backTimers>>

\* A bug: the editor stays where it is.
OpenReaderBeside(name) ==
  /\ Read(name)
  /\ Refresh
  /\ reader' = TRUE
  /\ UNCHANGED <<editor, writeTarget, timeVars>>

\* openInlineRead hides the editor and leaves writeTarget as it is.
OpenReader(name) ==
  /\ Read(name)
  /\ Refresh
  /\ reader' = TRUE
  /\ editor' = Hidden
  /\ UNCHANGED <<writeTarget, timeVars>>

CloseReader ==
  /\ reader
  /\ reader' = FALSE
  /\ UNCHANGED <<vars, controls, writeTarget, editor, tutVars, timeVars>>

-----------------------------------------------------------------------------
(* Reset, format dialog and timers.                                        *)

\* A bug: the tutorial is left where it is.
ResetVolume ==
  /\ Reset
  /\ controls' = FALSE
  /\ UNCHANGED <<pageVars, tutVars, timeVars>>

\* doReset leaves the editor, the banner and the timers alone.
ResetAll ==
  /\ Reset
  /\ controls' = FALSE
  /\ tutStep' = 0
  /\ UNCHANGED <<pageVars, banner, timeVars>>

\* What the dialog does not take: no number, or too small a one.  fsFormat
\* may still refuse the others.
DialogRefuses(size, block) ==
  \/ size \in {0, NaN} \/ block \in {0, NaN}
  \/ size < LeastSize \/ block < InodeSize

\* doFormat runs the command and sets a timer.
FormatDialog(size, block) ==
  /\ ~DialogRefuses(size, block)
  /\ backTimers' = backTimers + 1
  /\ launchTimers + clearTimers + backTimers' <= MaxTimers
  /\ Format(size, block)
  /\ Refresh
  /\ UNCHANGED <<pageVars, launchTimers, clearTimers, confetti>>

\* The timer of doFormat shows the tutorial from its start.
BackTimer ==
  /\ backTimers > 0
  /\ backTimers' = backTimers - 1
  /\ Advance(0)
  /\ UNCHANGED <<vars, controls, pageVars, launchTimers, clearTimers, confetti>>

\* A bug: the pieces are not cleared away.
LaunchOnly ==
  /\ launchTimers > 0
  /\ launchTimers' = launchTimers - 1
  /\ confetti' = TRUE
  /\ UNCHANGED <<vars, controls, pageVars, tutVars, backTimers, clearTimers>>

\* launchConfetti sets a timer to clear the container, of all pieces.
Launch ==
  /\ launchTimers > 0
  /\ launchTimers' = launchTimers - 1
  /\ clearTimers' = clearTimers + 1
  /\ confetti' = TRUE
  /\ UNCHANGED <<vars, controls, pageVars, tutVars, backTimers>>

Clear ==
  /\ clearTimers > 0
  /\ clearTimers' = clearTimers - 1
  /\ confetti' = FALSE
  /\ UNCHANGED <<vars, controls, pageVars, tutVars, backTimers, launchTimers>>

-----------------------------------------------------------------------------
Handler ==
  \/ \E line \in Line : Submit(line)
  \/ \E name \in NewName : QuickCreate(name)
  \/ \E name \in Listed, cmd \in {"stat", "rm"} : RowButton(cmd, name)
  \/ \E name \in Listed : OpenEditor(name) \/ OpenReader(name)
  \/ \E text \in Typed, append \in BOOLEAN : Type(text, append)
  \/ CloseEditor
  \/ Save
  \/ CloseReader
  \/ ResetAll
  \/ \E size \in DialogSize, block \in DialogBlock : FormatDialog(size, block)

PageNext == Handler \/ BackTimer \/ Launch \/ Clear

\* Timers that are due run before the page is idle for ever.
Fairness == WF_allVars(BackTimer) /\ WF_allVars(Launch) /\ WF_allVars(Clear)

PageSpec == PageInit /\ [][PageNext]_allVars /\ Fairness

-----------------------------------------------------------------------------
(* Properties.                                                             *)

\* Every variable of the page has its type: the tutorial never goes past the
\* third step.
PageTypeOK ==
  /\ controls \in BOOLEAN
  /\ writeTarget \in AnyName \cup {NoName}
  /\ editor \in [shown: BOOLEAN, text: Seq(Char), append: BOOLEAN]
  /\ reader \in BOOLEAN
  /\ tutStep \in 0 .. 2
  /\ banner \in 0 .. 2
  /\ backTimers \in 0 .. MaxTimers
  /\ launchTimers \in 0 .. MaxTimers
  /\ clearTimers \in 0 .. MaxTimers
  /\ confetti \in BOOLEAN

\* After any mixture of opening, saving, reading and resetting, an editor on
\* the screen has a file to write to and is not covered by the reader.
EditorSound == editor.shown => writeTarget # NoName /\ ~reader

\* Nobody is locked out of a volume: whatever was typed, clicked, opened or
\* refused before, the terminal and the file controls are there for as long as
\* there is a volume.  (Without one they are disabled, though the page then
\* asks for a command: see "Disagreements" in README.md.)
NeverLockedOut == formatted => controls

\* On a formatted volume the banner shows the step the tutorial is at, and
\* without one the tutorial is at its start, late timers and refused formats
\* included.
TutorialInStep == (formatted => banner = tutStep) /\ (tutStep > 0 => formatted)

PlainName(name) == \A k \in DOMAIN name : name[k] \notin Gap \cup Mark

\* A text that quotes leave as it is.
PlainText(text) ==
  /\ text # <<>>
  /\ \A k \in DOMAIN text : text[k] # Quotes
  /\ text[1] \notin Mark /\ text[Len(text)] \notin Mark

\* The command stores the text in the file of that name, and nothing else, or
\* is refused because the file is gone or the text does not fit.
Stored(name, text) ==
  \/ /\ reply'.ok
     /\ \E i \in DOMAIN files : Found(name, i) /\ files'[i].content = text
     /\ DOMAIN files' = DOMAIN files
     /\ \A i \in DOMAIN files :
          /\ files'[i].name = files[i].name
          /\ files[i].name # name => files'[i] = files[i]
  \/ /\ ~reply'.ok
     /\ files' = files
     /\ \/ Holders(name) = {}
        \/ \E i \in Holders(name) : FitsNot(Len(text), Len(files[i].blocks))

\* Saving stores the text that is shown in the file that is named, and in no
\* other, or is refused because the file is gone or the text does not fit:
\* the way over a command line and back loses nothing of a plain text.
SaveStores ==
  [][Save /\ PlainName(writeTarget) /\ PlainText(editor.text) =>
       Stored(writeTarget,
              IF editor.append THEN ContentOf(writeTarget) \o editor.text ELSE editor.text)
    ]_allVars

\* Confetti goes, however many launches overlap.
ConfettiGoes == []<>~confetti
=============================================================================
