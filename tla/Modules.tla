------------------------------ MODULE Modules ------------------------------
(***************************************************************************)
(* The module loader, src/src/module.c, and the calls main.c makes of it.  *)
(* Files are loaded while other files are: a module's body imports others, *)
(* which may import it back, and any of them may fail at any point of its  *)
(* load, be caught by its importer, and be imported again.                 *)
(*                                                                         *)
(* A body is what it imports, whether it binds _export and _delay, and how *)
(* it ends.  The search along the module path is a choice of the file it   *)
(* finds.  What a failed load does to vm->stack and vm->context is in      *)
(* Evaluator.                                                              *)
(***************************************************************************)
EXTENDS Naturals, Sequences, FiniteSets

CONSTANTS
  Path,      \* real paths of .fj files and of native modules
  Native,    \* the native ones
  MainFile   \* the file given on the command line

ASSUME ModulesAssumption ==
  /\ Native \subseteq Path
  /\ MainFile \in Path \ Native

VARIABLES
  modules,   \* vm->modules: path and value of each entry, and how far its load
             \* is (a history field)
  loads,     \* the loads in progress, innermost last
  started,   \* how many loads have evaluated, or begun to evaluate, a body
  parsed,    \* how the names of the files whose code the program has start
  ranMain,   \* Module_fromFile has been called
  last       \* what the last import gave its importer

vars == <<modules, loads, started, parsed, ranMain, last>>

\* Zero is the value of a struct nothing has been stored in; Nil what a native
\* module starts with; [of |-> "context", load |-> n] is the context of the nth
\* body, [of |-> "export", load |-> n] what that body bound to _export.
Zero == [of |-> "zero", load |-> 0]
Nil  == [of |-> "nil", load |-> 0]
Own(n)      == [of |-> "context", load |-> n]
Exported(n) == [of |-> "export", load |-> n]
Values == [of : {"zero", "nil", "context", "export"}, load : Nat]

\* How a file name starts: with a directory, with "./", or with neither.
Dir == {"dir", "dot", "bare"}

Progress == {"loading", "loaded", "failed"}
Entry == [path : Path, value : Values, progress : Progress]
\* entry = 0: Module_fromFile, whose ModuleInfo is in no cache.
Load == [path : Path, entry : Nat, phase : {"open", "body", "delay"},
         value : Values, dir : Dir]
Result == [res : {"none", "ok", "failed", "not found"}, path : Path,
           value : Values, progress : Progress, relative : BOOLEAN]

Init ==
  /\ modules = <<>>
  /\ loads = <<>>
  /\ started = 0
  /\ parsed = {}
  /\ ranMain = FALSE
  /\ last = [res |-> "none", path |-> MainFile, value |-> Zero,
             progress |-> "loading", relative |-> FALSE]

Inner == loads[Len(loads)]
Outer == SubSeq(loads, 1, Len(loads) - 1)

\* Code that can import: the command line or the prompt, a body, a _delay.
Importing == loads # <<>> => Inner.phase # "open"

\* Looks for modules that are completely loaded only.
CachedLoaded(p) == \E k \in DOMAIN modules :
                     modules[k].path = p /\ modules[k].progress = "loaded"

Cached(p) == \E k \in DOMAIN modules : modules[k].path = p
At(p) == CHOOSE k \in DOMAIN modules : modules[k].path = p

\* importCommon drops a leading "./" of the name it records.
Recorded(dir) == IF dir = "dot" THEN "bare" ELSE dir
-----------------------------------------------------------------------------
(* importCommon, after Module_import or Module_importRel has found a file  *)

\* The value of the entry, however far its load is.
ImportCached(p, relative) ==
  /\ Cached(p)
  /\ LET e == modules[At(p)]
     IN last' = [res |-> "ok", path |-> p, value |-> e.value,
                 progress |-> e.progress, relative |-> relative]
  /\ UNCHANGED <<modules, loads, started, parsed, ranMain>>

\* Loads into the entry before the one it has made.
ImportNewBefore(p, dir) ==
  /\ ~Cached(p)
  /\ modules' = Append(modules, [path |-> p, value |-> Zero, progress |-> "loading"])
  /\ loads' = Append(loads, [path |-> p, entry |-> Len(modules), phase |-> "open",
                             value |-> Zero, dir |-> Recorded(dir)])
  /\ UNCHANGED <<started, parsed, ranMain, last>>

\* The entry is made first, so that the module finds itself in a cycle.
ImportNew(p, dir) ==
  /\ ~Cached(p)
  /\ modules' = Append(modules, [path |-> p, value |-> Zero, progress |-> "loading"])
  /\ loads' = Append(loads, [path |-> p, entry |-> Len(modules) + 1, phase |-> "open",
                             value |-> Zero, dir |-> Recorded(dir)])
  /\ UNCHANGED <<started, parsed, ranMain, last>>

Module_import(p, dir) ==
  /\ Importing
  /\ ImportCached(p, FALSE) \/ ImportNew(p, dir)

\* In the directory of the file the import is written in, which is any file
\* whose closures can be called by now: the part of its name before the last
\* "/", or all of the name when there is none, where no file can be.  (What is
\* typed at the prompt is in no file; there it changes nothing and raises.)
Module_importRel(p, from) ==
  /\ Importing
  /\ from \in parsed
  /\ IF from = "bare"
     THEN /\ last' = [res |-> "not found", path |-> p, value |-> Zero,
                      progress |-> "failed", relative |-> TRUE]
          /\ UNCHANGED <<modules, loads, started, parsed, ranMain>>
     ELSE ImportCached(p, TRUE) \/ ImportNew(p, from)

Module_fromFile(dir) ==
  /\ loads = <<>> /\ ~ranMain
  /\ ranMain' = TRUE
  /\ loads' = <<[path |-> MainFile, entry |-> 0, phase |-> "open",
                 value |-> Zero, dir |-> dir]>>
  /\ UNCHANGED <<modules, started, parsed, last>>
-----------------------------------------------------------------------------
(* loadFruityModule and loadNativeModule                                   *)

\* Stores into the entry that was added last, which may be another module's.
SetLastValue(v) ==
  IF Inner.entry = 0 THEN modules
  ELSE [modules EXCEPT ![Len(modules)].value = v]

\* info->value = v, info being the ModuleInfo of the innermost load.
SetValue(v) ==
  IF Inner.entry = 0 THEN modules
  ELSE [modules EXCEPT ![Inner.entry].value = v]

\* The innermost load returns `res` to its importer; v is info->value.
Finish(res, v) ==
  /\ loads' = Outer
  /\ last' = [res |-> res, path |-> Inner.path, value |-> v, relative |-> FALSE,
              progress |-> IF res = "ok" THEN "loaded" ELSE "failed"]
  /\ modules' = IF Inner.entry = 0 THEN modules
                ELSE [modules EXCEPT ![Inner.entry].value = v,
                        ![Inner.entry].progress =
                          IF res = "ok" THEN "loaded" ELSE "failed"]
  /\ UNCHANGED <<started, parsed, ranMain>>

Active(phase) == loads # <<>> /\ Inner.phase = phase

\* The file cannot be opened, read or parsed, or the library not loaded.
OpenFails ==
  /\ Active("open")
  /\ Finish("failed", Zero)

\* The context becomes the module's value once the body has been evaluated.
StartBodyUnset ==
  /\ Active("open")
  /\ Inner.path \notin Native
  /\ started' = started + 1
  /\ parsed' = parsed \cup {Inner.dir}
  /\ loads' = Append(Outer, [Inner EXCEPT !.phase = "body", !.value = Own(started + 1)])
  /\ UNCHANGED <<modules, ranMain, last>>

StartBody ==
  /\ Active("open")
  /\ Inner.path \notin Native
  /\ started' = started + 1
  /\ parsed' = parsed \cup {Inner.dir}
  /\ modules' = SetValue(Own(started + 1))
  /\ loads' = Append(Outer, [Inner EXCEPT !.phase = "body", !.value = Own(started + 1)])
  /\ UNCHANGED <<ranMain, last>>

\* The body binds _export or not, and _delay, which is called, or not.
EndBody(export, delay) ==
  /\ Active("body")
  /\ LET v == IF export THEN Exported(Inner.value.load) ELSE Inner.value
     IN IF delay
        THEN /\ modules' = SetValue(v)
             /\ loads' = Append(Outer, [Inner EXCEPT !.phase = "delay", !.value = v])
             /\ UNCHANGED <<started, parsed, ranMain, last>>
        ELSE Finish("ok", v)

EndDelay ==
  /\ Active("delay")
  /\ Finish("ok", Inner.value)

\* The body or the _delay raises; the entry keeps the value it has.
BodyFails ==
  /\ Active("body") \/ Active("delay")
  /\ Finish("failed", Inner.value)

\* register_module of a native module stores its value, or fails.
LoadNative(ok) ==
  /\ Active("open")
  /\ Inner.path \in Native
  /\ started' = started + 1
  /\ LET v == IF ok THEN Own(started + 1) ELSE Nil
     IN /\ loads' = Outer
        /\ last' = [res |-> IF ok THEN "ok" ELSE "failed", path |-> Inner.path, value |-> v,
                    relative |-> FALSE, progress |-> IF ok THEN "loaded" ELSE "failed"]
        /\ modules' = [modules EXCEPT ![Inner.entry].value = v,
                         ![Inner.entry].progress = IF ok THEN "loaded" ELSE "failed"]
  /\ UNCHANGED <<parsed, ranMain>>

Next ==
  \/ \E p \in Path, from \in Dir : Module_importRel(p, from)
  \/ \E p \in Path, dir \in Dir \ {"bare"} : Module_import(p, dir)
  \/ \E dir \in Dir : Module_fromFile(dir)
  \/ OpenFails \/ StartBody \/ BodyFails \/ EndDelay
  \/ \E export, delay \in BOOLEAN : EndBody(export, delay)
  \/ \E ok \in BOOLEAN : LoadNative(ok)

Spec == Init /\ [][Next]_vars
-----------------------------------------------------------------------------
(* Properties                                                              *)

\* The state is well formed, and every load but the command line's works on
\* the entry of its own path.
TypeOK ==
  /\ modules \in Seq(Entry)
  /\ loads \in Seq(Load)
  /\ started \in Nat
  /\ parsed \subseteq Dir
  /\ ranMain \in BOOLEAN
  /\ last \in Result
  /\ \A j \in DOMAIN loads :
       IF loads[j].entry = 0 THEN j = 1 /\ loads[j].path = MainFile
       ELSE /\ loads[j].entry \in DOMAIN modules
            /\ modules[loads[j].entry].path = loads[j].path

\* However modules import each other and fail, a file has at most one entry
\* and is loaded through it once: two imports of the same file, nested or one
\* after the other, never make two copies, so recursion is no deeper than
\* there are files, and each body is evaluated once (twice for MainFile).
LoadedOnce ==
  /\ \A j, k \in DOMAIN modules : modules[j].path = modules[k].path => j = k
  /\ \A j, k \in DOMAIN loads : loads[j].entry = loads[k].entry => j = k

\* A module that imports its way back to itself gets the context it is filling,
\* never a value that has not been set yet.
CycleGetsContext ==
  last.res = "ok" /\ last.progress = "loading" =>
    last.value.of \in {"context", "export"}

\* Once a load is over its entry never changes: whatever is loaded later, all
\* importers of the module share one value.
ValueStable ==
  [][\A k \in DOMAIN modules :
       modules[k].progress # "loading" => modules'[k] = modules[k]]_vars

\* web/main.kiwi:1516: the loader "will execute the content of that module in a
\* new context, and cache the resulting context as the module to then be bound
\* by the import statement": an import that succeeds gives a module that has
\* been loaded, or is being loaded.  The code leaves the entry of a failed load
\* in the cache, and the next import takes its value.
ImportGivesModule ==
  last.res = "ok" => last.progress # "failed"

\* web/main.kiwi, Modules III: a relative import "will look for either a .fj or
\* .so file in the same directory as the source file containing the
\* statement".  The code does not find it when the source file is named without
\* a directory.
RelativeFound == last.res # "not found"
=============================================================================
