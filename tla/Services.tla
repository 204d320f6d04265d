------------------------------ MODULE Services -------------------------------
(***************************************************************************)
(* The small stateful components that share nothing: each run explores one *)
(* of them and leaves the others as they were, so that their states add up *)
(* instead of multiplying.                                                 *)
(***************************************************************************)
EXTENDS A2aRouter, A2aTasks, Memory, Plugins, Vault, WasmSandbox,
        FileReads, RateLimiter

VARIABLE focus     (* the component this behaviour is about                *)

servicesVars ==
    << focus, routerVars, taskVars, memoryVars, pluginVars, credentials, wasmVars,
       fileVars, bucketVars >>

Components ==
    {"router", "tasks", "memory", "plugins", "vault", "wasm", "files", "limiter"}

ServicesInit ==
    /\ focus \in Components
    /\ RouterInit /\ TasksInit /\ MemoryInit /\ PluginsInit /\ VaultInit /\ WasmInit
    /\ FilesInit /\ BucketInit

RouterStep ==
    /\ focus = "router" /\ RouterNext
    /\ UNCHANGED << focus, taskVars, memoryVars, pluginVars, credentials, wasmVars,
                    fileVars, bucketVars >>

TasksStep ==
    /\ focus = "tasks" /\ TasksNext
    /\ UNCHANGED << focus, routerVars, memoryVars, pluginVars, credentials, wasmVars,
                    fileVars, bucketVars >>

MemoryStep ==
    /\ focus = "memory" /\ MemoryNext
    /\ UNCHANGED << focus, routerVars, taskVars, pluginVars, credentials, wasmVars,
                    fileVars, bucketVars >>

PluginsStep ==
    /\ focus = "plugins" /\ PluginsNext
    /\ UNCHANGED << focus, routerVars, taskVars, memoryVars, credentials, wasmVars,
                    fileVars, bucketVars >>

VaultStep ==
    /\ focus = "vault" /\ VaultNext
    /\ UNCHANGED << focus, routerVars, taskVars, memoryVars, pluginVars, wasmVars,
                    fileVars, bucketVars >>

WasmStep ==
    /\ focus = "wasm" /\ WasmNext
    /\ UNCHANGED << focus, routerVars, taskVars, memoryVars, pluginVars, credentials,
                    fileVars, bucketVars >>

FilesStep ==
    /\ focus = "files" /\ FilesNext
    /\ UNCHANGED << focus, routerVars, taskVars, memoryVars, pluginVars, credentials,
                    wasmVars, bucketVars >>

LimiterStep ==
    /\ focus = "limiter" /\ BucketNext
    /\ UNCHANGED << focus, routerVars, taskVars, memoryVars, pluginVars, credentials,
                    wasmVars, fileVars >>

ServicesNext ==
    RouterStep \/ TasksStep \/ MemoryStep \/ PluginsStep \/ VaultStep \/ WasmStep
        \/ FilesStep \/ LimiterStep

(* Every execution keeps its thread; the clock runs, and the runtime polls *)
(* the task whose timer has fired.                                         *)
ServicesFairness ==
    /\ \A s \in Slots : WF_servicesVars(WasmStep /\ Proceed(s))
    /\ WF_servicesVars(LimiterStep /\ Tick)
    /\ WF_servicesVars(LimiterStep /\ Wake)

ServicesSpec == ServicesInit /\ [][ServicesNext]_servicesVars /\ ServicesFairness
=============================================================================
