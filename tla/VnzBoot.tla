------------------------------- MODULE VnzBoot -------------------------------
(***************************************************************************)
(* module_start of the plugin (VVNZRunner/main.c).  The calls of the       *)
(* plugin go through pointers into two kernel modules; module_start looks  *)
(* the modules up, resolves the pointers, registers the handlers of        *)
(* process events, patches the image of the Venezia and resets it, so that *)
(* the processor runs what was patched.  When a lookup fails it returns,   *)
(* and reports success: the plugin stays loaded, as far as it came.  What  *)
(* the registration of the handlers returns it does not look at.           *)
(*                                                                         *)
(* Assumed: an offset in a module that was found resolves; a pointer not   *)
(* resolved is NULL.                                                       *)
(***************************************************************************)

VARIABLES boot,     \* next step of module_start; "started" or "gave_up" at its end
          pointers, \* the kernel pointers that have been resolved
          handlers, \* the process events have handlers
          image,    \* the image of the Venezia in memory
          loaded    \* the image the processor runs, since its last reset

bvars == <<boot, pointers, handlers, image, loaded>>

BootInit == /\ boot = "find_engine"
            /\ pointers = {}
            /\ handlers = FALSE
            /\ image = "factory"
            /\ loaded = "factory"

\* _sceVeneziaEventHandler, _sceVeneziaGetProcessorLoad, _vnzExecClockFrequency and the
\* two of unmapped memory, in SceCodecEngineWrapper; _sceAvcodecMapMemoryToVenezia.
\* Mutants: the last is resolved with the others; the last is not resolved.
EnginePointersAndMap == {"event", "load", "clock", "alloc", "free", "map"}
EnginePointers == {"event", "load", "clock", "alloc", "free"}
NoPointers == {}
AvcodecPointers == {"map"}

GiveUp == boot' = "gave_up" /\ UNCHANGED <<pointers, handlers, image, loaded>>

FindEngine ==
    /\ boot = "find_engine"
    /\ \/ GiveUp
       \/ /\ pointers' = EnginePointers
          /\ boot' = "find_avcodec"
          /\ UNCHANGED <<handlers, image, loaded>>

FindAvcodec ==
    /\ boot = "find_avcodec"
    /\ \/ GiveUp
       \/ /\ pointers' = pointers \cup AvcodecPointers
          /\ boot' = "register"
          /\ UNCHANGED <<handlers, image, loaded>>

\* The kernel may refuse: the rest goes on without handlers.
RegisterHandlers ==
    /\ boot = "register"
    /\ handlers' \in BOOLEAN
    /\ boot' = "patch"
    /\ UNCHANGED <<pointers, image, loaded>>

PatchImage ==
    /\ boot = "patch"
    /\ image' = "patched"
    /\ boot' = "reset"
    /\ UNCHANGED <<pointers, handlers, loaded>>

ResetVenezia ==
    /\ boot = "reset"
    /\ loaded' = image
    /\ boot' = "started"
    /\ UNCHANGED <<pointers, handlers, image>>

BootNext == \/ FindEngine \/ FindAvcodec \/ RegisterHandlers
            \/ PatchImage \/ ResetVenezia

\* module_start has returned; programs start after that.
Booted == boot \in {"started", "gave_up"}

BootTypeOK ==
    /\ boot \in {"find_engine", "find_avcodec", "register", "patch", "reset",
                 "started", "gave_up"}
    /\ pointers \subseteq EnginePointers \cup AvcodecPointers
    /\ handlers \in BOOLEAN
    /\ image \in {"factory", "patched"}
    /\ loaded \in {"factory", "patched"}
=============================================================================
