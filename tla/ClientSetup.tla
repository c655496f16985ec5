------------------------------ MODULE ClientSetup ------------------------------
(*****************************************************************************)
(* Setup of the clients (operability.py): after the database is ready, every *)
(* MangoMe entry is removed from the user's and the project's configuration  *)
(* of the client, the one server entry is written, and the managed           *)
(* instruction is merged into the instruction file.  An edit reads the file, *)
(* copies it to a backup unless there is one, complete or not, writes a      *)
(* temporary file of a fixed name and renames it.  Setups, repairs of doctor *)
(* and the client itself write the same files, and none of them locks.       *)
(*                                                                           *)
(* A file is the set of what it holds: what the operator wrote, "old"        *)
(* entries of MangoMe and the "server" entry (the instruction block in the   *)
(* instruction file); or it is absent, or torn.                              *)
(*****************************************************************************)
EXTENDS Naturals, Sequences

CONSTANTS Setups,
          MaxSetups     \* bound: setups started

\* Of the constants.
SetupAssumption == MaxSetups \in Nat

VARIABLES files, saved, temporary,      \* each file, its backup, its temporary file
          editing,      \* the setup that runs
          installed,    \* where the last setup to report has put the server, or "none"
          setups,
          given,        \* history: the files as the operator left them
          crossing,     \* history: two setups overlapped
          client        \* history: the client has saved its state, "kept", or "crossed" by an edit, or not: "no"

vars == <<files, saved, temporary, editing, installed, setups, given, crossing, client>>

Files == {"user", "project", "instruction"}
Absent == [state |-> "absent", has |-> {}]
Torn == [state |-> "torn", has |-> {}]
Text(entries) == [state |-> "text", has |-> entries]
Idle == [pc |-> "idle"]
MangoMe == {"old", "server"}

\* The edits of configure_claude_code, by scope, and of configure_codex, which is "local".
LocalEdits == <<[file |-> "user", op |-> "strip"], [file |-> "project", op |-> "strip"],
                [file |-> "user", op |-> "install"], [file |-> "instruction", op |-> "install"]>>
ProjectEdits == [LocalEdits EXCEPT ![3] = [file |-> "project", op |-> "rewrite"]]
Edits == [local |-> LocalEdits, project |-> ProjectEdits]
Target == [local |-> "user", project |-> "project"]

Init ==
    /\ given \in [Files -> {Absent, Text({"mine"}), Text({"mine", "old"})}]
    /\ files = given
    /\ saved = [f \in Files |-> Absent] /\ temporary = [f \in Files |-> Absent]
    /\ editing = [s \in Setups |-> Idle]
    /\ installed = "none" /\ setups = 0 /\ crossing = FALSE /\ client = "no"

Edit(s) == Edits[editing[s].scope][editing[s].at]
Goto(s, pc) == editing' = [editing EXCEPT ![s].pc = pc]
End(s) == editing' = [editing EXCEPT ![s] = Idle]

\* setup_clients, also called by doctor to repair: the database first; if it is not ready
\* no entry of an old version is touched.
Begin(s, scope) ==
    /\ editing[s] = Idle
    /\ setups < MaxSetups
    /\ setups' = setups + 1
    /\ crossing' = (crossing \/ \E t \in Setups : editing[t] # Idle)
    /\ \/ /\ editing' = [editing EXCEPT ![s] = [pc |-> "read", scope |-> scope, at |-> 1, data |-> {}]]
          /\ installed' = "none"
       \/ UNCHANGED <<editing, installed>>
    /\ UNCHANGED <<files, saved, temporary, given, client>>

\* What the edit makes of the entries that it has read.
Stripped(entries) == entries \ MangoMe
Installed(entries) == (entries \ {"old"}) \cup {"server"}
Edited(op, entries) == IF op = "strip" THEN Stripped(entries) ELSE Installed(entries)

\* A file that cannot be parsed stops the setup; an edit that changes nothing is skipped,
\* except that the server entry is always written.  With the scope "project" the entry goes
\* into what the strip had read.
Read(s) ==
    /\ editing[s].pc = "read"
    /\ LET e == Edit(s)
           entries == IF e.op = "rewrite" THEN editing[s].data ELSE files[e.file].has
           new == Edited(e.op, entries)
       IN IF files[e.file].state = "torn" /\ e.op # "rewrite" THEN End(s)
          ELSE editing' = [editing EXCEPT ![s] = [@ EXCEPT
                   !.data = new,
                   !.pc = IF new # entries \/ (e.op # "strip" /\ e.file # "instruction") THEN "backup" ELSE "next"]]
    /\ UNCHANGED <<files, saved, temporary, installed, setups, given, crossing, client>>

MutFirst(f) == TRUE
First(f) == saved[f].state = "absent"

\* _backup_once: the copy creates the backup and then fills it.
Backup(s) ==
    /\ editing[s].pc = "backup"
    /\ LET f == Edit(s).file
       IN IF First(f) /\ files[f] # Absent THEN saved' = [saved EXCEPT ![f] = Torn] /\ Goto(s, "copy")
          ELSE UNCHANGED saved /\ Goto(s, "open")
    /\ UNCHANGED <<files, temporary, installed, setups, given, crossing, client>>

\* A full disk ends the setup and leaves what has been copied; so does a death.
CopyBackup(s) ==
    /\ editing[s].pc = "copy"
    /\ LET f == Edit(s).file
       IN \/ saved' = [saved EXCEPT ![f] = files[f]] /\ Goto(s, "open")
          \/ UNCHANGED saved /\ End(s)
    /\ UNCHANGED <<files, temporary, installed, setups, given, crossing, client>>

\* _atomic_text: the temporary file is truncated, written and renamed.
OpenTemporary(s) ==
    /\ editing[s].pc = "open"
    /\ temporary' = [temporary EXCEPT ![Edit(s).file] = Torn]
    /\ Goto(s, "write")
    /\ UNCHANGED <<files, saved, installed, setups, given, crossing, client>>

WriteTemporary(s) ==
    /\ editing[s].pc = "write"
    /\ temporary' = [temporary EXCEPT ![Edit(s).file] = Text(editing[s].data)]
    /\ Goto(s, "rename")
    /\ UNCHANGED <<files, saved, installed, setups, given, crossing, client>>

\* Another setup may have renamed the file before.
Rename(s) ==
    /\ editing[s].pc = "rename"
    /\ LET f == Edit(s).file
       IN IF temporary[f] = Absent THEN End(s) /\ UNCHANGED <<files, temporary>>
          ELSE /\ files' = [files EXCEPT ![f] = temporary[f]]
               /\ temporary' = [temporary EXCEPT ![f] = Absent]
               /\ Goto(s, "next")
    /\ UNCHANGED <<saved, installed, setups, given, crossing, client>>

\* The next edit, or the report after the last one.
NextEdit(s) ==
    /\ editing[s].pc = "next"
    /\ IF editing[s].at < Len(Edits[editing[s].scope])
       THEN /\ editing' = [editing EXCEPT ![s] = [@ EXCEPT !.pc = "read", !.at = editing[s].at + 1]]
            /\ UNCHANGED installed
       ELSE End(s) /\ installed' = Target[editing[s].scope]
    /\ UNCHANGED <<files, saved, temporary, setups, given, crossing, client>>

Crash(s) ==
    /\ editing[s] # Idle
    /\ End(s)
    /\ UNCHANGED <<files, saved, temporary, installed, setups, given, crossing, client>>

\* The client saves its own state to the file of the user, completely.
ClientWrites ==
    /\ files["user"].state = "text" /\ client = "no"
    /\ files' = [files EXCEPT !["user"].has = @ \cup {"fresh"}]
    /\ client' = IF \E s \in Setups : editing[s].pc \in {"backup", "copy", "open", "write", "rename"} /\ Edit(s).file = "user"
                 THEN "crossed" ELSE "kept"
    /\ UNCHANGED <<saved, temporary, editing, installed, setups, given, crossing>>

Next ==
    \/ \E s \in Setups :
          \/ \E scope \in {"local", "project"} : Begin(s, scope)
          \/ Read(s) \/ Backup(s) \/ CopyBackup(s) \/ OpenTemporary(s) \/ WriteTemporary(s)
          \/ Rename(s) \/ NextEdit(s) \/ Crash(s)
    \/ ClientWrites

Spec == Init /\ [][Next]_vars

-----------------------------------------------------------------------------
(* Properties. *)

\* While no two setups overlap: no file is ever incomplete, whatever dies where; what the
\* operator wrote stays in the file; what MangoMe removed from it is in its backup, also
\* after later setups, unless a setup ended inside the copy that made the backup: what it
\* left is taken for a backup ever after.  A setup that reported has left one server entry,
\* where the scope wants it, and no old one.  What the client saves itself survives too,
\* unless it is saved between the reading and the renaming of an edit.
SetupIsRecoverable ==
    ~crossing =>
        /\ \A f \in Files :
              /\ files[f].state # "torn"
              /\ "mine" \in given[f].has => "mine" \in files[f].has
              /\ saved[f] # Torn => given[f].has \subseteq files[f].has \cup saved[f].has
        /\ installed # "none" =>
              /\ "server" \in files[installed].has
              /\ {f \in {"user", "project"} : files[f].has \cap MangoMe # {}} = {installed}
        /\ client = "kept" => "fresh" \in files["user"].has
=============================================================================
