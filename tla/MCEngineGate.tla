---------------------------- MODULE MCEngineGate ----------------------------
(* Two threads that may call anything, beside the worker.                   *)
EXTENDS EngineGate

CONSTANTS c1, c2

Anything == [c \in Callers |->
    {"execute", "hurry", "resume", "cancel", "check", "scan", "dirty", "snapshot",
     "unkeep"}]

==================================================================================
