------------------------------- MODULE Desktop -------------------------------
(***************************************************************************)
(* The desktop application: launching, opening the vault, the session of   *)
(* the user, the screens each role reaches and the dialogs, drawn frame by *)
(* frame, together with the others that write the same database: the       *)
(* service and the maintenance console.                                    *)
(*                                                                         *)
(* A step is one frame with at most one click.  The window library lets a  *)
(* click fall on what the previous frame had drawn as well, so a dialog is *)
(* answered in a frame that finds it already open.  What the dialogs and   *)
(* buttons do to documents is in modules Custody and Admission.            *)
(***************************************************************************)
EXTENDS Integers

CONSTANTS Users,    \* user names, the standard ones of the first configuration
          RoleOf,   \* the role each of them has
          Pins,     \* PINs of six characters or more
          NoUser    \* no such user in a table

Roles == {"Docente", "Administrativo", "Coordinacion", "Director"}

VARIABLES
    file,   \* the database file exists
    disk,   \* the users it holds
    lock,   \* who has db/.lock: "free", "service" or "app"
    door,   \* a door session is in force
    let,    \* the console found it so, and has not written yet
    on,     \* the application is running
    ita,    \* it was launched with --ITA
    handle, \* `roles`: "none", "ro" or "rw"
    copy,   \* the users of the handle's database in memory
    who,    \* the user of the session, NoUser for none
    screen, \* the active screen
    modal   \* the dialog the last frame left open

vars == <<file, disk, lock, door, let, on, ita, handle, copy, who, screen, modal>>
vault == <<file, disk, lock>>
process == <<on, ita, handle, copy>>

Table == [Users -> [pin : Pins, enabled : BOOLEAN] \cup {NoUser}]
Empty == [u \in Users |-> NoUser]
Screens == {"Bootstrap", "Login", "Documents", "Trash", "Audit", "Users", "System"}
Dialogs == {"logout", "quit", "rename", "edit", "delete", "newuser", "setpin", "picker"}

TypeOK ==
    /\ file \in BOOLEAN /\ disk \in Table
    /\ lock \in {"free", "service", "app"} /\ (lock = "app") = (handle = "rw")
    /\ door \in BOOLEAN /\ let \in BOOLEAN /\ on \in BOOLEAN /\ ita \in BOOLEAN
    /\ handle \in {"none", "ro", "rw"} /\ copy \in Table
    /\ who \in Users \cup {NoUser}
    /\ screen \in Screens /\ modal \in Dialogs \cup {"none"}

Init ==
    /\ file = FALSE /\ disk = Empty /\ lock = "free" /\ door = FALSE /\ let = FALSE
    /\ on = FALSE /\ ita = FALSE /\ handle = "none" /\ copy = Empty
    /\ who = NoUser /\ screen = "Login" /\ modal = "none"

-----------------------------------------------------------------------------
\* Roles.

CanRenameOrMove(r) == r = "Administrativo"
CanSoftDelete(r) == r = "Administrativo"
CanRestore(r) == r = "Administrativo"
CanEditMeta(r) == r \in {"Administrativo", "Coordinacion"}
CanAudit(r) == r \in {"Coordinacion", "Director"}
CanImport(r) == CanRenameOrMove(r) \/ CanEditMeta(r)

-----------------------------------------------------------------------------
\* The others at the same database.

\* vaultd takes the lock for as long as it runs, and saves its PIN: the file exists.
ServiceStart ==
    /\ lock = "free"
    /\ lock' = "service" /\ file' = TRUE
    /\ UNCHANGED <<let, disk, door, process, who, screen, modal>>

ServiceStop ==
    /\ lock = "service"
    /\ lock' = "free"
    /\ UNCHANGED <<let, file, disk, door, process, who, screen, modal>>

\* users add, disable, enable and reset-pin ask for the door session first of all,
\* then for a PIN, and then open the database.
ConsoleLetIn ==
    /\ door /\ ~let
    /\ let' = TRUE
    /\ UNCHANGED <<vault, door, process, who, screen, modal>>

\* The console writes only if it gets the lock, which it gives back when it ends.
ConsoleUser(u, rec) ==
    /\ let /\ file /\ lock = "free"
    /\ disk' = [disk EXCEPT ![u] = rec]
    /\ let' = FALSE
    /\ UNCHANGED <<file, lock, door, process, who, screen, modal>>

ConsoleFails ==
    /\ let
    /\ let' = FALSE
    /\ UNCHANGED <<vault, door, process, who, screen, modal>>

\* The console opens, revokes or lets expire its session.
Door ==
    /\ door' = ~door
    /\ UNCHANGED <<let, vault, process, who, screen, modal>>

-----------------------------------------------------------------------------
\* The process.

Launch ==
    /\ ~on
    /\ on' = TRUE /\ ita' \in BOOLEAN
    /\ screen' = IF file THEN "Login" ELSE "Bootstrap"
    /\ UNCHANGED <<let, vault, door, handle, copy, who, modal>>

Ends ==
    /\ on' = FALSE /\ ita' = FALSE /\ handle' = "none" /\ copy' = Empty
    /\ lock' = IF handle = "rw" THEN "free" ELSE lock
    /\ who' = NoUser /\ screen' = "Login" /\ modal' = "none"

\* The window is closed from outside, or the process dies.
Close ==
    /\ on
    /\ Ends
    /\ UNCHANGED <<let, file, disk, door>>

\* Mutant: the lock of the writer's own handle is not given back.
OpensTwice ==
    /\ handle' = IF lock = "free" THEN "rw" ELSE "ro"
    /\ lock' = IF lock = "free" THEN "app" ELSE lock

\* VaultDb::open beside the handle in use, which is dropped only afterwards: a
\* writer that opens again finds its own lock taken.
OpenVault ==
    /\ handle' = IF lock = "free" THEN "rw" ELSE "ro"
    /\ lock' = IF lock = "free" THEN "app" ELSE IF handle = "rw" THEN "free" ELSE lock

\* flush of the database in memory: nothing in consultation or when it fails.
Flush(users, mode, saved) ==
    /\ file' = (file \/ (mode = "rw" /\ saved))
    /\ disk' = IF mode = "rw" /\ saved THEN users ELSE disk

CanWrite == handle # "ro"

-----------------------------------------------------------------------------
\* One frame.

\* it_screen_allowed
Privileged == ita /\ door

\* The frame leaves the administration screens as soon as they are not allowed.
Shown == IF ~Privileged /\ screen \in {"Users", "System"} THEN "Documents" ELSE screen

\* draw_modal takes the dialog out of the state, and puts back the file picker only.
Leaves(m) == IF m = "picker" THEN m ELSE "none"

Frame ==
    /\ on
    /\ screen' = Shown
    /\ modal' = Leaves(modal)
    /\ UNCHANGED <<let, vault, door, process, who>>

\* The four standard users with one PIN.  Failures of the flush are ignored.
Bootstrap(p, saved) ==
    /\ on /\ screen = "Bootstrap" /\ CanWrite
    /\ OpenVault
    /\ copy' = [u \in Users |-> [pin |-> p, enabled |-> TRUE]]
    /\ Flush(copy', handle', saved)
    /\ screen' = "Login"
    /\ modal' = Leaves(modal)
    /\ UNCHANGED <<let, door, on, ita, who>>

\* RoleService::login
Enters(u, p) == copy[u] # NoUser /\ copy[u].enabled /\ copy[u].pin = p

\* A writer also saves the time of the access, and does not open the session if
\* it cannot.  Without a handle nothing happens.
Login(u, p, saved) ==
    /\ on /\ screen = "Login" /\ handle # "none"
    /\ Enters(u, p)
    /\ handle = "rw" => saved
    /\ Flush(copy, handle, saved)
    /\ who' = u /\ screen' = "Documents"
    /\ modal' = Leaves(modal)
    /\ UNCHANGED <<let, lock, door, process>>

\* The screens the navigation offers.
Reachable ==
    {"Documents"} \cup (IF CanRestore(RoleOf[who]) THEN {"Trash"} ELSE {})
                  \cup (IF CanAudit(RoleOf[who]) THEN {"Audit"} ELSE {})
                  \cup (IF Privileged THEN {"Users", "System"} ELSE {})

Nav(s) ==
    /\ on /\ who # NoUser /\ s \in Reachable
    /\ screen' = s
    /\ modal' = Leaves(modal)
    /\ UNCHANGED <<let, vault, door, process, who>>

\* The dialogs of the documents screen, and of the administration of users.
DocumentDialogs(r) ==
    (IF CanImport(r) THEN {"picker"} ELSE {})
    \cup (IF CanRenameOrMove(r) THEN {"rename"} ELSE {})
    \cup (IF CanEditMeta(r) THEN {"edit"} ELSE {})
    \cup (IF CanSoftDelete(r) THEN {"delete"} ELSE {})

UserDialogs == {"newuser", "setpin"}

\* The dialogs that the buttons of the top bar and of the shown screen open.
Offered ==
    {"quit"}
    \cup (IF who # NoUser THEN {"logout"} ELSE {})
    \cup (IF who # NoUser /\ Shown = "Documents" /\ CanWrite
          THEN DocumentDialogs(RoleOf[who]) ELSE {})
    \cup (IF Shown = "Users" /\ CanWrite THEN UserDialogs ELSE {})

Ask(m) ==
    /\ on /\ m \in Offered
    /\ screen' = Shown
    /\ modal' = Leaves(m)
    /\ UNCHANGED <<let, vault, door, process, who>>

\* it_add_user and it_set_pin, which ask again whether the session is in force.
Added(u, p) == [copy EXCEPT ![u] = [pin |-> p, enabled |-> TRUE]]
Repinned(u, p) == IF copy[u] = NoUser THEN copy ELSE [copy EXCEPT ![u].pin = p]

Edited(m, u, p) ==
    IF ~Privileged \/ handle # "rw" THEN copy
    ELSE CASE m = "newuser" -> Added(u, p)
           [] m = "setpin" -> Repinned(u, p)
           [] OTHER -> copy

\* A button of the open dialog.
Answer(u, p, saved) ==
    /\ on /\ modal # "none"
    /\ IF modal = "quit" THEN Ends /\ UNCHANGED <<file, disk>>
       ELSE /\ copy' = Edited(modal, u, p)
            /\ Flush(copy', handle, saved /\ (modal \in UserDialogs => Privileged))
            /\ who' = IF modal = "logout" THEN NoUser ELSE who
            /\ screen' = IF modal = "logout" THEN "Login" ELSE Shown
            /\ modal' = "none"
            /\ UNCHANGED <<lock, on, ita, handle>>
    /\ UNCHANGED <<let, door>>

\* Buttons that act at once and save the database.
Act(saved) ==
    /\ Flush(copy, handle, saved)
    /\ screen' = Shown /\ modal' = Leaves(modal)
    /\ UNCHANGED <<let, lock, door, process, who>>

\* director_view is recorded in the audit chain.  (The button of the versions, which
\* asks CanAudit, only reads: a frame like any other.)
View(saved) ==
    /\ on /\ who # NoUser /\ RoleOf[who] = "Director"
    /\ Shown = "Documents"
    /\ Act(saved)

Restore(saved) == on /\ who # NoUser /\ Shown = "Trash" /\ CanWrite /\ Act(saved)

\* RoleService::set_user_enabled
Toggled(u) == [copy EXCEPT ![u].enabled = ~copy[u].enabled]

\* it_toggle_user
ToggleUser(u, saved) ==
    /\ on /\ Shown = "Users" /\ CanWrite /\ copy[u] # NoUser
    /\ copy' = Toggled(u)
    /\ Flush(copy', handle, saved)
    /\ screen' = Shown /\ modal' = Leaves(modal)
    /\ UNCHANGED <<let, lock, door, on, ita, handle, who>>

\* "Recargar estado de la bóveda": the session stays.
Reload ==
    /\ on /\ Shown = "System"
    /\ OpenVault
    /\ copy' = disk
    /\ screen' = Shown /\ modal' = Leaves(modal)
    /\ UNCHANGED <<let, file, disk, door, on, ita, who>>

\* it_close_session and the button of the banner remove door/session.
CloseDoor ==
    /\ on /\ Privileged
    /\ door' = FALSE
    /\ screen' = IF Shown \in {"Users", "System"} THEN "Documents" ELSE Shown
    /\ modal' = Leaves(modal)
    /\ UNCHANGED <<let, vault, process, who>>

Next ==
    \/ ServiceStart
    \/ ServiceStop
    \/ ConsoleLetIn
    \/ ConsoleFails
    \/ \E u \in Users, rec \in [pin : Pins, enabled : BOOLEAN] : ConsoleUser(u, rec)
    \/ Door
    \/ Launch
    \/ Close
    \/ Frame
    \/ \E p \in Pins, saved \in BOOLEAN : Bootstrap(p, saved)
    \/ \E u \in Users, p \in Pins, saved \in BOOLEAN : Login(u, p, saved)
    \/ \E s \in Screens : Nav(s)
    \/ \E m \in Dialogs : Ask(m)
    \/ \E u \in Users, p \in Pins, saved \in BOOLEAN : Answer(u, p, saved)
    \/ \E saved \in BOOLEAN : View(saved) \/ Restore(saved)
    \/ \E u \in Users, saved \in BOOLEAN : ToggleUser(u, saved)
    \/ Reload
    \/ CloseDoor

Spec == Init /\ [][Next]_vars

-----------------------------------------------------------------------------
\* What the screens offer (README-LINUX.md:136, "importar, renombrar, mover") and the
\* button "Salir" can be done: a dialog asked for is there in the next frame, to be
\* answered.
DialogsCanBeAnswered ==
    on /\ who # NoUser => \A m \in Offered : ENABLED (Ask(m) /\ modal' = m)

\* What happens instead to the session, which the dialog of "Salir" should close: it
\* lasts until the process ends.
SessionLastsUntilExit == [][who # NoUser /\ on' => who' = who]_vars

\* The application shows the login of an existing vault to have its users enter
\* (lib.rs:376 of vault-gui, "login directo").
ExistingVaultCanBeEntered == on /\ screen = "Login" => handle # "none"
=============================================================================
