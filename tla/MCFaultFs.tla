----------------------------- MODULE MCFaultFs -----------------------------
\* The in-memory filesystem of the tests, for TLC, against the contract of directory handles: directories, a
\* directory renamed under a handle below it, kinds of entries, files and links, writers, locks, and names that
\* fold together, each with the operations that matter to it.
EXTENDS Naturals, Sequences

CONSTANTS None, h0, h1, h2, w1, k1, k2

\* The scenario is chosen once; the variables of the components it does not use keep one value.
VARIABLES scenario, g, hs, ws, ks, ho, wo, ans

fsVars == <<g, hs, ws, ks, ho, wo, ans>>

Exact == [n \in {"a", "b"} |-> n]
\* "A" is looked up as "a".
Folded == [n \in {"a", "A", "b"} |-> IF n = "A" THEN "a" ELSE n]

Uses ==
    LET Usual == [Names |-> {"a", "b"}, Handles |-> {h0, h1}, Writers |-> {}, Locks |-> {}, Fold |-> Exact,
                  replace_renames |-> FALSE, legacy_delete |-> FALSE, Bytes |-> {<<1>>}, Times |-> {},
                  MaxDepth |-> 1, MaxObjects |-> None, MaxLen |-> 1, Ops |-> None, Specials |-> {}]
    IN  [dirs |-> [Usual EXCEPT !.Handles = {h0, h1, h2}, !.MaxObjects = 3,
                   !.Ops = {"open_dir", "create_dir", "remove_dir", "rename_no_replace"}],
         below |-> [Usual EXCEPT !.Handles = {h0, h1, h2}, !.MaxDepth = 2, !.MaxObjects = 2,
                    !.Ops = {"open_dir", "create_dir", "rename_no_replace"}],
         kinds |-> [Usual EXCEPT !.MaxObjects = 2,
                    !.Ops = {"open_dir", "create_dir", "remove_dir", "rename_no_replace", "create_symlink", "remove_file"},
                    !.Specials = {"b"}],
         files |-> [Usual EXCEPT !.Writers = {w1}, !.MaxObjects = 2,
                    !.Ops = {"create_dir", "create_new", "create_hardlink", "remove_file", "rename_replace"}],
         writers |-> [Usual EXCEPT !.Handles = {h0}, !.Writers = {w1}, !.Bytes = {<<1>>, <<2, 2>>}, !.Times = {1},
                      !.MaxObjects = 2, !.MaxLen = 2,
                      !.Ops = {"create_new", "open_existing", "write", "truncate_to", "set_times", "create_hardlink", "rename_replace"}],
         locks |-> [Usual EXCEPT !.Handles = {h0}, !.Locks = {k1, k2}, !.legacy_delete = TRUE, !.MaxObjects = 2,
                    !.Ops = {"create_lock", "open_lock", "try_lock", "write_at_start", "remove_file"}],
         fold |-> [Usual EXCEPT !.Names = {"a", "A", "b"}, !.Writers = {w1}, !.Fold = Folded,
                   !.replace_renames = TRUE, !.MaxObjects = 2,
                   !.Ops = {"create_new", "create_symlink", "remove_file", "rename_replace", "rename_no_replace"}]]
Fs(s) == INSTANCE FaultFs WITH Names <- Uses[s].Names, Handles <- Uses[s].Handles, RootHandle <- h0,
    Writers <- Uses[s].Writers, Locks <- Uses[s].Locks, Fold <- Uses[s].Fold,
    replace_renames <- Uses[s].replace_renames, legacy_delete <- Uses[s].legacy_delete, Payload <- <<7>>,
    Bytes <- Uses[s].Bytes, Times <- Uses[s].Times, MaxDepth <- Uses[s].MaxDepth, MaxObjects <- Uses[s].MaxObjects,
    MaxLen <- Uses[s].MaxLen, Ops <- Uses[s].Ops, StaleHandles <- FALSE, LateWriters <- FALSE,
    OverDirectory <- FALSE, Specials <- Uses[s].Specials

Now(table) == {scenario} \cap DOMAIN table

Init ==
    \/ \E s \in DOMAIN Uses : scenario = s /\ Fs(s)!Init

Next ==
    \/ (\E s \in Now(Uses) : Fs(s)!Next) /\ UNCHANGED scenario

vars == <<scenario, fsVars>>
Spec == Init /\ [][Next]_vars

-----------------------------------------------------------------------------
\* What the fake answers and what it holds agree: every object has an identity, a name has one object, folded
\* names have no twin, and a pending removal is hidden.
FsPromise ==
    /\ \A s \in Now(Uses) :
          /\ Fs(s)!TypeOK /\ Fs(s)!EveryObjectHasIdentity /\ Fs(s)!OneObjectPerName /\ Fs(s)!NoTwins
          /\ Fs(s)!PendingIsHidden
    /\ \A s \in {scenario} \cap {"dirs", "below", "files", "locks", "fold"} : Fs(s)!ReadsAgree

\* Every call of every handle does what the contract lets it do, and a handle stays with its object; under writers, and
\* under folded names, each step of the fake is a step of the contract's specification.
ImplementsContract ==
    [][/\ \A s \in Now(Uses) : Fs(s)!EveryCallAsPromised /\ Fs(s)!HandleKeepsItsObject
       /\ \A s \in {scenario} \cap {"writers", "fold"} : [Fs(s)!Contract!Next]_(Fs(s)!Contract!vars)]_vars
=============================================================================
