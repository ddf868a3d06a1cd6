-------------------------------- MODULE Shell --------------------------------
(***************************************************************************)
(* The operator's menu on the second serial port (SHELL_main, SHELL_getLine *)
(* and SHELL_getIP, src/Src/shell.c): the login, the settings it changes in *)
(* xConfig and stores, the confirmations it asks for.                      *)
(*                                                                         *)
(* All prompts but a few read into one buffer, pInputLine, which is zeroed *)
(* only before the login; SHELL_getLine writes the characters typed and no *)
(* terminator, so a prompt finds what an earlier, longer line has left.    *)
(* That is the part of the data the model keeps character by character.    *)
(*                                                                         *)
(* One action is one line typed at one prompt, or the save a command ends  *)
(* with: nothing else changes pInputLine or xConfig.  Typed lines are      *)
(* shorter than the buffer, and a save succeeds; its faults are the        *)
(* subject of Config.tla.                                                  *)
(***************************************************************************)
EXTENDS Naturals, Sequences, SequencesExt

CONSTANTS Chars,        \* what SHELL_getLine takes for text, ' ' to '~'
          Erase,        \* the backspace or delete key
          NUL,          \* a zero byte
          Lines,        \* the lines an operator may type, Erase included
          AddressLines, \* those of them typed for the addresses of '1'
          DigitValue,   \* what the characters of numbers and addresses stand for
          IntMod,       \* an int has this many values, 2^32
          MaxPort,      \* 65536
          LineLen,      \* cmdMAX_INPUT_SIZE
          AnswerLen,    \* 16, the length read for some answers
          PasswdLen,    \* the size of CONFIG's pPasswd and of pNewPasswd
          SerialLen,    \* the size of CONFIG's pSerialNumber
          MacLen,       \* 17, the length of a MAC address
          DefaultConfig,
          MaxSaves      \* bound: changes of the settings

Text == Seq(Chars)
Digits == DOMAIN DigitValue
Ports == 1..(MaxPort - 1)

\* CONFIG
Configs == [pPasswd : Text, pSerialNumber : Text, bStatic : {0, 1}, net : Seq(Text),
            server : Text, port : Ports, pMAC : Seq(Chars \cup {NUL})]

\* The texts and their terminating zeros fit into their arrays, and there is a password.
Fits(config) ==
  /\ config.pPasswd # <<>> /\ Len(config.pPasswd) < PasswdLen
  /\ Len(config.pSerialNumber) < SerialLen

ASSUME ShellAssumption ==
  /\ {LineLen, AnswerLen, PasswdLen, SerialLen, MacLen} \subseteq Nat \ {0}
  /\ {AnswerLen, PasswdLen, SerialLen} \subseteq 1..LineLen
  /\ NUL \notin Chars /\ Erase \notin Chars
  /\ Lines \subseteq Seq(Chars \cup {Erase})
  /\ \A line \in Lines : Len(line) < LineLen
  /\ AddressLines \subseteq Lines
  /\ DigitValue \in [Digits -> 0..9] /\ IntMod \in Nat /\ MaxPort \in 1..(IntMod \div 2)
  /\ DefaultConfig \in Configs /\ Len(DefaultConfig.net) = 3 /\ Fits(DefaultConfig)
  /\ MaxSaves \in Nat

VARIABLES
  pc,           \* the prompt shown, "save" at the end of a command, or "gone" when
                \* the board is being reset
  pInputLine,   \* the buffer
  xConfig,      \* the settings in effect
  stored,       \* the settings in flash
  bUpdatedConfig,  \* a command has changed the settings
  bStop,        \* command 'Q' has been confirmed
  newAddrs,     \* locals of command '1': the addresses entered so far
  newServer,    \* local of command '3': xNewServerIP
  newPort,      \* local of command '4': nPort
  newText,      \* locals of 'p' and 's': pNewPasswd, pSerialNumber
  \* history
  typed,        \* the password, or the value of the setting, that was typed
  nSaves        \* changes of the settings so far

locals == <<newAddrs, newServer, newPort, newText>>
vars == <<pc, pInputLine, xConfig, stored, bUpdatedConfig, bStop, locals, typed, nSaves>>

Zeros == [i \in 1..LineLen |-> NUL]

\* What a C function makes of a buffer: the characters before the first zero.
CString(buf) ==
  LET n == CHOOSE k \in 0..Len(buf) :
             /\ \A i \in 1..k : buf[i] # NUL
             /\ k = Len(buf) \/ buf[k + 1] = NUL
  IN SubSeq(buf, 1, n)

\* What one key does to the buffer and its length.
Key(got, max, c) ==
  IF c = Erase
    THEN IF got.n > 0
           THEN [n |-> got.n - 1, buf |-> [got.buf EXCEPT ![got.n] = NUL]]
           ELSE got
    ELSE IF got.n < max
           THEN [n |-> got.n + 1, buf |-> [got.buf EXCEPT ![got.n + 1] = c]]
           ELSE got

\* SHELL_getLine: the buffer and the length it returns after a line.
GetLine(buf, max, line) ==
  FoldLeft(LAMBDA got, c : Key(got, max, c), [n |-> 0, buf |-> buf], line)

\* The characters that the returned length covers.
ReadInto(buf, max, line) == LET got == GetLine(buf, max, line) IN SubSeq(got.buf, 1, got.n)

\* A line into pInputLine, and what a command finds there under its length.
Reads(max, line) == pInputLine' = GetLine(pInputLine, max, line).buf
LineRead(max, line) == ReadInto(pInputLine, max, line)

\* strcasecmp(pInputLine, "y") as a truth value: the string is not a "y".
Confirms(max, line) ==
  /\ Len(LineRead(max, line)) = 1
  /\ CString(GetLine(pInputLine, max, line).buf) # <<"y">>

\* What the operator means by a line, whatever any buffer holds: the text left after
\* the erasures, of which no more than max characters are taken.
EditedBy(max, text, c) ==
  IF c = Erase THEN Front(text)
  ELSE IF Len(text) < max THEN Append(text, c) ELSE text

Edited(max, line) ==
  LET text[k \in 0..Len(line)] == IF k = 0 THEN <<>> ELSE EditedBy(max, text[k - 1], line[k])
  IN text[Len(line)]

\* ip4addr_aton: an address is a number here.
IsAddress(s) == s # <<>> /\ \A i \in 1..Len(s) : s[i] \in Digits

\* The number that digits say.
NumberOf(s) ==
  LET n[i \in 0..Len(s)] == IF i = 0 THEN 0 ELSE n[i - 1] * 10 + DigitValue[s[i]]
  IN n[Len(s)]

\* nPort after the loop of '4': an int, which the instructions for it wrap.  From
\* IntMod \div 2 on it is negative, and as little a port as what MaxPort excludes.
Converted(s) ==
  LET n[i \in 0..Len(s)] == IF i = 0 THEN 0 ELSE (n[i - 1] * 10 + DigitValue[s[i]]) % IntMod
  IN n[Len(s)]

\* The checks of '4': digits only, and nPort from 1 to 65535.
IsPort(s) == IsAddress(s) /\ Converted(s) \in Ports

\* Mutant: the copy may take the whole array, its last byte included.
SerialToTheEnd(s) == IF Len(s) <= SerialLen THEN s ELSE SubSeq(s, 1, SerialLen)

\* strncpy into CONFIG's pSerialNumber.
SerialOf(s) == IF Len(s) < SerialLen THEN s ELSE SubSeq(s, 1, SerialLen - 1)

Prompts == {"prompt", "passwd", "menu", "mode", "address", "netConfirm", "mac", "server",
            "serverConfirm", "port", "portConfirm", "old", "new", "again", "serial",
            "serialConfirm", "restart", "quit", "save"}
LoggedIn == pc \notin {"prompt", "passwd", "gone"}

TypeOK ==
  /\ pc \in Prompts \cup {"gone"}
  /\ pInputLine \in [1..LineLen -> Chars \cup {NUL}]
  /\ {xConfig, stored} \subseteq Configs /\ Len(xConfig.net) = 3
  /\ newAddrs \in Seq(Text) /\ Len(newAddrs) <= 3
  /\ {newServer, newText, typed} \subseteq Text /\ newPort \in 0..(MaxPort - 1)
  /\ Len(newText) <= IF pc = "again" THEN PasswdLen - 1 ELSE SerialLen
  /\ Len(typed) < LineLen
  /\ bUpdatedConfig \in BOOLEAN /\ bStop \in BOOLEAN
  /\ nSaves \in 0..MaxSaves

\* The board has started with the default configuration.
Init ==
  /\ pc = "prompt"
  /\ pInputLine = Zeros
  /\ xConfig = DefaultConfig /\ stored = DefaultConfig
  /\ bUpdatedConfig = FALSE /\ bStop = FALSE
  /\ newAddrs = <<>> /\ newServer = <<>> /\ newPort = 0 /\ newText = <<>>
  /\ typed = <<>>
  /\ nSaves = 0

\* A command changes the settings in effect and notes that it has.
Changes(config) ==
  /\ nSaves < MaxSaves
  /\ nSaves' = nSaves + 1
  /\ xConfig' = config
  /\ bUpdatedConfig' = TRUE
  /\ UNCHANGED <<stored, bStop>>

KeepsConfig == UNCHANGED <<xConfig, stored, bUpdatedConfig, bStop, nSaves>>

\* The end of a command: its locals are gone.
EndCommand ==
  /\ pc' = "save"
  /\ newAddrs' = <<>> /\ newServer' = <<>> /\ newPort' = 0 /\ newText' = <<>>
  /\ typed' = <<>>

\* The next prompt, where nothing has been entered that a command keeps.
GoesTo(prompt) == pc' = prompt /\ typed' = <<>> /\ UNCHANGED locals

(***************************************************************************)
(* Login                                                                   *)
(***************************************************************************)

\* Mutant: the buffer is not zeroed before the first prompt.
PromptKeepsLine(line) ==
  /\ pc = "prompt"
  /\ pInputLine' = GetLine(pInputLine, LineLen, line).buf
  /\ GoesTo(IF LineRead(LineLen, line) = <<"?">> THEN "passwd" ELSE "prompt")
  /\ KeepsConfig

\* The loop around the login: memset, and a question mark asks for the password.
Prompt(line) ==
  /\ pc = "prompt"
  /\ pInputLine' = GetLine(Zeros, LineLen, line).buf
  /\ GoesTo(IF ReadInto(Zeros, LineLen, line) = <<"?">> THEN "passwd" ELSE "prompt")
  /\ KeepsConfig

Passwd(line) ==
  /\ pc = "passwd"
  /\ Reads(LineLen, line)
  /\ IF CString(pInputLine') = xConfig.pPasswd
       THEN pc' = "menu" /\ typed' = Edited(LineLen, line) /\ UNCHANGED locals
       ELSE GoesTo("prompt")
  /\ KeepsConfig

(***************************************************************************)
(* The menu                                                                *)
(***************************************************************************)

\* The first prompt of each command; 'f' ends the tasks and resets the board
\* (Shutdown.tla).
Command(key) ==
  CASE key = "1" -> "mode" [] key = "2" -> "mac"    [] key = "3" -> "server"
    [] key = "4" -> "port" [] key = "p" -> "old"    [] key = "s" -> "serial"
    [] key = "f" -> "gone" [] key = "Q" -> "quit"   [] key = "R" -> "restart"
    [] OTHER -> "save"

\* 'd' displays and any other key does nothing; any other line is asked for again.
Menu(line) ==
  /\ pc = "menu"
  /\ Reads(LineLen, line)
  /\ LET text == LineRead(LineLen, line) IN
       GoesTo(IF Len(text) = 1 THEN Command(text[1]) ELSE "menu")
  /\ KeepsConfig

\* Behind the commands: CONFIG_save if one has changed the settings; 'Q' ends the loop.
Save ==
  /\ pc = "save"
  /\ GoesTo(IF bStop THEN "prompt" ELSE "menu")
  /\ stored' = IF bUpdatedConfig THEN xConfig ELSE stored
  /\ bUpdatedConfig' = FALSE /\ bStop' = FALSE
  /\ UNCHANGED <<pInputLine, xConfig, nSaves>>

(***************************************************************************)
(* Network settings: commands '1' to '4'                                   *)
(***************************************************************************)

Mode(line) ==
  /\ pc = "mode"
  /\ Reads(LineLen, line)
  /\ LET text == LineRead(LineLen, line) IN
       \/ text = <<"1">> /\ GoesTo("address") /\ KeepsConfig
       \/ text = <<"0">> /\ EndCommand /\ Changes([xConfig EXCEPT !.bStatic = 0])
       \/ text \notin {<<"0">>, <<"1">>} /\ EndCommand /\ KeepsConfig

\* SHELL_getIP, three times: an empty line keeps the old address, a wrong one
\* ends the command.
Address(line) ==
  /\ pc = "address"
  /\ LET text == ReadInto(Zeros, LineLen, line)
         old  == xConfig.net[Len(newAddrs) + 1]
     IN IF text # <<>> /\ ~IsAddress(text)
          THEN EndCommand
          ELSE /\ newAddrs' = Append(newAddrs, IF text = <<>> THEN old ELSE text)
               /\ pc' = IF Len(newAddrs) = 2 THEN "netConfirm" ELSE "address"
               /\ UNCHANGED <<typed, newServer, newPort, newText>>
  /\ UNCHANGED pInputLine
  /\ KeepsConfig

\* The answer itself goes to the serial number, too (222).
NetConfirm(line) ==
  /\ pc = "netConfirm"
  /\ Reads(1, line)
  /\ EndCommand
  /\ IF Confirms(1, line)
       THEN Changes([xConfig EXCEPT !.pSerialNumber = SerialOf(CString(pInputLine')),
                                 !.bStatic = 1, !.net = newAddrs])
       ELSE KeepsConfig

\* A line of the right length whose separators are right.  The address stands for
\* the bytes the loop makes of it; what is no digit goes in unchecked.
Mac(line) ==
  /\ pc = "mac"
  /\ Reads(LineLen, line)
  /\ EndCommand
  /\ \/ Len(LineRead(LineLen, line)) = MacLen /\ Changes([xConfig EXCEPT !.pMAC = SubSeq(pInputLine', 1, MacLen)])
     \/ KeepsConfig

\* The length of the line is not looked at.
Server(line) ==
  /\ pc = "server"
  /\ Reads(LineLen, line)
  /\ IF IsAddress(CString(pInputLine'))
       THEN /\ pc' = "serverConfirm"
            /\ newServer' = CString(pInputLine')
            /\ UNCHANGED <<typed, newAddrs, newPort, newText>>
       ELSE EndCommand
  /\ KeepsConfig

ServerConfirm(line) ==
  /\ pc = "serverConfirm"
  /\ Reads(1, line)
  /\ EndCommand
  /\ IF Confirms(1, line) THEN Changes([xConfig EXCEPT !.server = newServer]) ELSE KeepsConfig

\* Mutant: the whole string is converted, not the characters of this line.
PortReadsString(line) ==
  /\ pc = "port"
  /\ Reads(LineLen, line)
  /\ IF IsPort(CString(pInputLine'))
       THEN /\ pc' = "portConfirm"
            /\ newPort' = Converted(CString(pInputLine'))
            /\ typed' = Edited(LineLen, line)
            /\ UNCHANGED <<newAddrs, newServer, newText>>
       ELSE EndCommand
  /\ KeepsConfig

Port(line) ==
  /\ pc = "port"
  /\ Reads(LineLen, line)
  /\ LET text == LineRead(LineLen, line) IN
       IF IsPort(text)
         THEN /\ pc' = "portConfirm"
              /\ newPort' = Converted(text)
              /\ typed' = Edited(LineLen, line)
              /\ UNCHANGED <<newAddrs, newServer, newText>>
         ELSE EndCommand
  /\ KeepsConfig

\* Mutant: the command forgets to say that it has changed the settings.
PortConfirmUnflagged(line) ==
  /\ pc = "portConfirm"
  /\ Reads(AnswerLen, line)
  /\ EndCommand
  /\ IF Confirms(AnswerLen, line)
       THEN /\ nSaves < MaxSaves /\ nSaves' = nSaves + 1
            /\ xConfig' = [xConfig EXCEPT !.port = newPort]
            /\ UNCHANGED <<stored, bUpdatedConfig, bStop>>
       ELSE KeepsConfig

PortConfirm(line) ==
  /\ pc = "portConfirm"
  /\ Reads(AnswerLen, line)
  /\ EndCommand
  /\ IF Confirms(AnswerLen, line) THEN Changes([xConfig EXCEPT !.port = newPort]) ELSE KeepsConfig

(***************************************************************************)
(* Password and serial number: commands 'p' and 's'                        *)
(***************************************************************************)

OldPasswd(line) ==
  /\ pc = "old"
  /\ Reads(LineLen, line)
  /\ IF LineRead(LineLen, line) # <<>> /\ CString(pInputLine') = xConfig.pPasswd
       THEN GoesTo("new") ELSE EndCommand
  /\ KeepsConfig

\* A text of up to max characters, read into a zeroed buffer of its own.
EntersText(max, line, next) ==
  LET got == GetLine(Zeros, max, line) IN
    /\ IF got.n # 0
         THEN /\ pc' = next
              /\ newText' = CString(got.buf)
              /\ typed' = Edited(max, line)
              /\ UNCHANGED <<newAddrs, newServer, newPort>>
         ELSE EndCommand
    /\ UNCHANGED pInputLine
    /\ KeepsConfig

\* Mutant: the whole buffer is offered to the new password.
NewPasswdUnbounded(line) == pc = "new" /\ EntersText(PasswdLen, line, "again")

NewPasswd(line) == pc = "new" /\ EntersText(PasswdLen - 1, line, "again")

\* The password entered again, in the buffer that held the old one.
AgainPasswd(line) ==
  /\ pc = "again"
  /\ Reads(LineLen - 1, line)
  /\ EndCommand
  /\ IF LineRead(LineLen - 1, line) # <<>> /\ CString(pInputLine') = newText
       THEN Changes([xConfig EXCEPT !.pPasswd = newText])
       ELSE KeepsConfig

SerialNumber(line) == pc = "serial" /\ EntersText(SerialLen, line, "serialConfirm")

SerialConfirm(line) ==
  /\ pc = "serialConfirm"
  /\ Reads(1, line)
  /\ EndCommand
  /\ IF Confirms(1, line) THEN Changes([xConfig EXCEPT !.pSerialNumber = SerialOf(newText)]) ELSE KeepsConfig

(***************************************************************************)
(* Leaving: commands 'R' and 'Q', and the reset                            *)
(***************************************************************************)

RestartBoard(line) ==
  /\ pc = "restart"
  /\ Reads(AnswerLen, line)
  /\ IF Confirms(AnswerLen, line) THEN GoesTo("gone") ELSE EndCommand
  /\ KeepsConfig

Quit(line) ==
  /\ pc = "quit"
  /\ Reads(AnswerLen, line)
  /\ EndCommand
  /\ IF Confirms(AnswerLen, line) THEN bStop' = TRUE ELSE UNCHANGED bStop
  /\ UNCHANGED <<xConfig, stored, bUpdatedConfig, nSaves>>

\* A reset by the shell or a power failure: main loads what is stored.
Boot ==
  /\ pc' = "prompt"
  /\ pInputLine' = Zeros
  /\ xConfig' = stored /\ bUpdatedConfig' = FALSE /\ bStop' = FALSE
  /\ newAddrs' = <<>> /\ newServer' = <<>> /\ newPort' = 0 /\ newText' = <<>>
  /\ typed' = <<>>
  /\ UNCHANGED <<stored, nSaves>>

-----------------------------------------------------------------------------

NetworkCommand(line) ==
  \/ Mode(line) \/ (line \in AddressLines /\ Address(line)) \/ NetConfirm(line) \/ Mac(line)
  \/ Server(line) \/ ServerConfirm(line) \/ Port(line) \/ PortConfirm(line)

AccountCommand(line) ==
  \/ OldPasswd(line) \/ NewPasswd(line) \/ AgainPasswd(line)
  \/ SerialNumber(line) \/ SerialConfirm(line) \/ RestartBoard(line) \/ Quit(line)

Next ==
  \/ \E line \in Lines :
       Prompt(line) \/ Passwd(line) \/ Menu(line) \/ NetworkCommand(line) \/ AccountCommand(line)
  \/ Save
  \/ Boot

Spec == Init /\ [][Next]_vars

-----------------------------------------------------------------------------
(***************************************************************************)
(* Correctness                                                             *)
(***************************************************************************)

\* The menu opens only to one who has typed the whole password, whatever was
\* typed before: an earlier attempt leaves nothing in the buffer (138).  (An
\* empty line leaves the question mark there.)
LoginNeedsPassword ==
  [][~LoggedIn /\ LoggedIn' =>
       typed' = xConfig.pPasswd \/ (typed' = <<>> /\ xConfig.pPasswd = <<"?">>)]_vars

\* Each command that changes the settings says so (bUpdatedConfig), and the save
\* behind the commands (538-541) does not miss one: at every prompt what is in
\* effect is what a restart would find.
NothingUnsaved == pc # "save" => xConfig = stored

\* The password and the serial number fit into the arrays of CONFIG with their
\* terminating zeros (32 bytes each, config.h), and a password is never empty.
TextsFit == Fits(xConfig)

\* The port becomes the number typed for it, as far as an int holds it: 4294967377
\* sets port 81 (365-368).  The serial number becomes what was typed up to the size
\* of its array, the password the first of its entries.  The buffer may hold parts of
\* other lines: '4' looks at the characters of its line only, 's' and 'p' read into
\* buffers of their own.
SettingsAsEntered ==
  [][/\ xConfig'.port # xConfig.port /\ pc = "portConfirm" => xConfig'.port = NumberOf(typed) % IntMod
     /\ xConfig'.pSerialNumber # xConfig.pSerialNumber /\ pc = "serialConfirm" =>
          xConfig'.pSerialNumber = SubSeq(typed, 1, IF Len(typed) < SerialLen THEN Len(typed)
                                                    ELSE SerialLen - 1)
     /\ xConfig'.pPasswd # xConfig.pPasswd /\ pc = "again" => xConfig'.pPasswd = typed]_vars

\* "Is the entered serial number[%s] correct(y/n)? : " (shell.c:490): it is set
\* if the answer, one character, is yes.
ConfirmedByYes ==
  [][xConfig'.pSerialNumber # xConfig.pSerialNumber /\ pc = "serialConfirm" => pInputLine'[1] = "y"]_vars

=============================================================================
