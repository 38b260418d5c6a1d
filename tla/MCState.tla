------------------------------ MODULE MCState ------------------------------
\* An operation's state on disk, for TLC: the workspace step by step under failing calls, deaths, power losses
\* and other programs; the record across runs, versions and commands; and the texts of the paths and identities
\* in it.
EXTENDS Naturals, Sequences

CONSTANTS None

\* The scenario is chosen once; the variables of the components it does not use keep one value.
VARIABLES scenario, cur, dur, spaceRun, out, left, disk, partial, target, recordRun, started, budget, wrote,
          asked, used, text

spaceVars == <<cur, dur, spaceRun, out, left>>
recordVars == <<disk, partial, target, recordRun, started, budget, wrote, asked, used>>
textVars == <<text>>

\* Workspace: the destination is absent, empty, in use with another reserved directory beside the operations, or has a
\* foreign object at one of the control paths.
Absent == <<"absent", FALSE, "absent", "absent", FALSE>>
Empty == <<"dir", FALSE, "absent", "absent", FALSE>>
AnyWorld == {Absent, Empty, <<"dir", TRUE, "dir", "absent", TRUE>>, <<"dir", FALSE, "other", "absent", FALSE>>,
             <<"dir", FALSE, "dir", "other", FALSE>>}

\* StateRecord: a few commands; sources that moved, lost their identity, were replaced, or are several.
Default == [preserve_times |-> "default", durability |-> "normal", safety |-> "default", existing |-> "overwrite",
            links |-> "copy", cross_filesystems |-> FALSE, exclude |-> << >>, recursive |-> TRUE]
Durable == [Default EXCEPT !.durability = "strict"]
Chosen == [Default EXCEPT !.links = "skip", !.exclude = <<1, 2>>, !.recursive = FALSE]
Skip == [Default EXCEPT !.existing = "skip-existing"]
Root(path, strong, object, prefix, kind) ==
    [source_root |-> path, source_identity |-> [strong |-> strong, obj |-> object],
     destination_prefix |-> prefix, kind |-> kind]
One == <<Root("a", TRUE, 1, "t", None)>>
Moved == <<Root("b", TRUE, 1, "t", None)>>
Weak == <<Root("a", FALSE, 0, "t", None)>>
Replaced == <<Root("a", TRUE, 2, "t", None)>>
Two == <<Root("a", TRUE, 1, "x", "tree"), Root("b", FALSE, 0, "y", "file")>>
Cmd(mode, options, roots, break) == [mode |-> mode, options |-> options, roots |-> roots, break |-> break]
OptionCommands ==
    {Cmd("plain", Default, One, FALSE), Cmd("resume", Durable, One, FALSE), Cmd("resume", Default, One, TRUE),
     Cmd("resume", Chosen, One, FALSE), Cmd("restart", Chosen, One, FALSE), Cmd("restart", Default, One, TRUE)}
RootCommands ==
    {Cmd("plain", Default, One, FALSE), Cmd("resume", Default, Moved, FALSE), Cmd("resume", Default, Weak, FALSE),
     Cmd("resume", Default, Replaced, FALSE), Cmd("restart", Default, Two, FALSE), Cmd("resume", Default, Two, FALSE)}
SkipCommands == {Cmd(mode, Skip, One, FALSE) : mode \in {"plain", "resume", "restart"}}
AnyStage == {"nothing", "older", "stranger", "newer"}

Spaces ==
    [faults |-> [MaxRuns |-> 2, MaxFaults |-> 1, MaxCrashes |-> 0, MaxLosses |-> 0, MaxForeign |-> 0,
                 Worlds |-> AnyWorld],
     crashes |-> [MaxRuns |-> 2, MaxFaults |-> 0, MaxCrashes |-> 2, MaxLosses |-> 0, MaxForeign |-> 0,
                  Worlds |-> {Absent}],
     power |-> [MaxRuns |-> 2, MaxFaults |-> 0, MaxCrashes |-> 0, MaxLosses |-> 1, MaxForeign |-> 0,
                Worlds |-> {Absent}],
     foreign |-> [MaxRuns |-> 2, MaxFaults |-> 0, MaxCrashes |-> 1, MaxLosses |-> 0, MaxForeign |-> 1,
                  Worlds |-> {Empty}]]
Space(s) == INSTANCE Workspace WITH MaxRuns <- Spaces[s].MaxRuns, MaxFaults <- Spaces[s].MaxFaults,
    MaxCrashes <- Spaces[s].MaxCrashes, MaxLosses <- Spaces[s].MaxLosses, MaxForeign <- Spaces[s].MaxForeign,
    Worlds <- Spaces[s].Worlds, run <- spaceRun
Records ==
    LET Usual == [Kind |-> None, Commands |-> None, Staged |-> None, Targets |-> None, Runs |-> 2,
                  MaxLeft |-> 0, Faults |-> 1, Edits |-> 0, Appears |-> 0]
    IN  [options |-> [Usual EXCEPT !.Kind = "tree", !.Commands = OptionCommands, !.Staged = AnyStage,
                      !.Targets = {None}, !.MaxLeft = 3],
         roots |-> [Usual EXCEPT !.Kind = "tree", !.Commands = RootCommands, !.Staged = {"nothing"},
                    !.Targets = {None}, !.Runs = 3, !.MaxLeft = 1, !.Faults = 0],
         file |-> [Usual EXCEPT !.Kind = "file", !.Commands = OptionCommands, !.Staged = AnyStage,
                   !.Targets = {None, 0}],
         skip |-> [Usual EXCEPT !.Kind = "file", !.Commands = SkipCommands, !.Staged = {"nothing"},
                   !.Targets = {None, 0}, !.Runs = 3, !.Appears = 1],
         edited |-> [Usual EXCEPT !.Kind = "file", !.Commands = OptionCommands, !.Staged = {"nothing"},
                     !.Targets = {None}, !.Runs = 3, !.Faults = 0, !.Edits = 1]]
Record(s) == INSTANCE StateRecord WITH Kind <- Records[s].Kind, Commands <- Records[s].Commands,
    Staged <- Records[s].Staged, Former <- [roots |-> One, options |-> Default], Targets <- Records[s].Targets,
    Runs <- Records[s].Runs, Limit <- 2, MaxLeft <- Records[s].MaxLeft, Faults <- Records[s].Faults,
    Crashes <- 1, Edits <- Records[s].Edits, Appears <- Records[s].Appears, run <- recordRun
Texts ==
    [paths |-> [Alphabet |-> {"a", ".", "/", "NUL"}],
     identity |-> [Alphabet |-> {"strong", "weak", "unavailable", ":", "0", "1"}]]
Text(s) == INSTANCE StateText WITH Alphabet <- Texts[s].Alphabet, MaxLen <- 6, MaxVolume <- 2

SpaceIdle == cur = None /\ dur = None /\ spaceRun = None /\ out = None /\ left = None
RecordIdle == disk = None /\ partial = None /\ target = None /\ recordRun = None /\ started = None /\
    budget = None /\ wrote = None /\ asked = None /\ used = None
TextIdle == text = None
Now(table) == {scenario} \cap DOMAIN table

Init ==
    \/ \E s \in DOMAIN Spaces : scenario = s /\ Space(s)!Init /\ RecordIdle /\ TextIdle
    \/ \E s \in DOMAIN Records : scenario = s /\ Record(s)!Init /\ SpaceIdle /\ TextIdle
    \/ \E s \in DOMAIN Texts : scenario = s /\ Text(s)!Init /\ SpaceIdle /\ RecordIdle

Next ==
    \/ (\E s \in Now(Spaces) : Space(s)!Next) /\ UNCHANGED <<scenario, recordVars, textVars>>
    \/ (\E s \in Now(Records) : Record(s)!Next) /\ UNCHANGED <<scenario, spaceVars, textVars>>
    \/ (\E s \in Now(Texts) : Text(s)!Next) /\ UNCHANGED <<scenario, spaceVars, recordVars>>

vars == <<scenario, spaceVars, recordVars, textVars>>
Spec == Init /\ [][Next]_vars

-----------------------------------------------------------------------------
\* Whichever call failed and wherever a process died, a published workspace has its manifest and a resumable one its
\* store; a refusal leaves the destination as it was; a run that completes without a warning leaves no workspace of
\* its own, no debris, and no .flux that nothing else needs. After a power loss what was copied is recorded, which is
\* all that the flushes promise there.
WorkspacePromise ==
    /\ \A s \in Now(Spaces) :
          /\ Space(s)!TypeOK /\ Space(s)!CopyIsRecorded
    /\ \A s \in {scenario} \cap {"faults", "crashes", "foreign"} :
          /\ Space(s)!WorkspaceHasManifest /\ Space(s)!ResumableHasStore
    /\ \A s \in {scenario} \cap {"faults"} : Space(s)!RefusalUnchanged
    /\ \A s \in {scenario} \cap {"faults", "crashes"} : Space(s)!CompletedIsClean

\* A record that was written is read as what was written, also after a write that failed, but for the two COMPLETED
\* records that are refused; an older binary reads one that says nothing new; the command that wrote it may resume
\* it; its temporaries and leftovers are listed; what was copied is what was asked; the paths and identities in it
\* are read back from their text as they were, and no text with an empty part is a path; and removing `.' and `..'
\* from a path leaves the components that no later `..' takes.
RecordPromise ==
    /\ \A s \in Now(Records) : Record(s)!TypeOK
    /\ \A s \in {scenario} \cap {"options", "roots", "file", "skip"} : Record(s)!WrittenIsReadable
    /\ \A s \in {scenario} \cap {"options", "roots"} : Record(s)!OwnCommandResumes
    /\ \A s \in {scenario} \cap {"options"} :
          /\ Record(s)!OlderBinaryReads /\ Record(s)!LeftoversListed
    /\ \A s \in {scenario} \cap {"options", "file"} : Record(s)!PartialsNamed
    /\ \A s \in {scenario} \cap {"edited"} : Record(s)!CopiesAsAsked
    /\ \A s \in {scenario} \cap {"paths"} :
          /\ Text(s)!PathRoundTrip /\ Text(s)!EmptyPartRefused /\ Text(s)!LexicalIsMatching
    /\ \A s \in {scenario} \cap {"identity"} : Text(s)!IdentityRoundTrip

\* What a doc says of the skipped single files: their COMPLETED record names a target.
SkipSpec == Init /\ scenario = "skip" /\ [][Next]_vars
CompletedNamesTarget == \A s \in {scenario} \cap {"skip"} : Record(s)!CompletedNamesTarget

\* Objects of other programs, and files of the destination that are not the run's, are left alone; a record is
\* replaced by one that keeps what it said, and a terminal one only by the run whose own COMPLETED write was
\* reported as failed; a generation is not used twice, and the heir of a superseded record is recorded first.
StateSteps ==
    [][/\ \A s \in Now(Spaces) :
             /\ Space(s)!StrangersKept /\ Space(s)!DestOnlyOwn
       /\ \A s \in Now(Records) :
             /\ Record(s)!GenerationIsFresh /\ Record(s)!HeirIsRecorded
       /\ \A s \in {scenario} \cap {"options", "roots", "file", "skip"} : Record(s)!RewriteKeeps]_vars
=============================================================================
