----------------------------- MODULE ClContext -------------------------------
(***************************************************************************)
(* Preparing OpenCL, src/hash_ss/cl_context.c: create_device takes a GPU,  *)
(* or a CPU where there is none; build_program reads a source file, hands  *)
(* it to OpenCL and builds it.  Every call of the C library and of OpenCL  *)
(* may fail.  A failure that the code sees ends the process; one that it   *)
(* does not see is a store through NULL or before an allocation, and pc    *)
(* becomes "undefined".  How much of the buffer fread stores is left out:  *)
(* the code drops what fread returns and hands all of it to OpenCL.        *)
(***************************************************************************)
EXTENDS Integers

CONSTANT MaxSize  \* bound: the length of the source file

VARIABLES
  gpu,           \* "present", "absent" or "broken", fixed
  device,        \* "none", "GPU" or "CPU"
  handle,        \* "none", "open" or "closed"
  program_size,
  buffer,        \* "none", "allocated" or "freed"
  program,       \* "none", "created" or "built"
  pc

local == <<device, handle, program_size, buffer, program>>
vars == <<gpu, local, pc>>

Init ==
  /\ gpu \in {"present", "absent", "broken"}
  /\ device = "none" /\ handle = "none"
  /\ program_size = 0 /\ buffer = "none"
  /\ program = "none" /\ pc = "platform"

At(place) == pc = place /\ UNCHANGED gpu
Goto(place) == pc' = place
Exit == Goto("exited") /\ UNCHANGED local       \* perror and exit(1)
Undefined == Goto("undefined") /\ UNCHANGED local
-----------------------------------------------------------------------------
clGetPlatformIDs == At("platform") /\ (Exit \/ (Goto("gpu") /\ UNCHANGED local))

Use(d) ==
  /\ device' = d /\ Goto("open")
  /\ UNCHANGED <<handle, program_size, buffer, program>>

clGetDeviceIDsAnyError ==
  \/ /\ At("gpu")
     /\ \/ gpu = "present" /\ Use("GPU")
        \/ gpu # "present" /\ Goto("cpu") /\ UNCHANGED local
  \/ At("cpu") /\ (Exit \/ Use("CPU"))

(* Of all errors only CL_DEVICE_NOT_FOUND leads on to the CPUs. *)
clGetDeviceIDs ==
  \/ /\ At("gpu")
     /\ \/ gpu = "present" /\ Use("GPU")
        \/ gpu = "absent" /\ Goto("cpu") /\ UNCHANGED local
        \/ gpu = "broken" /\ Exit
  \/ At("cpu") /\ (Exit \/ Use("CPU"))

fopen ==
  /\ At("open")
  /\ \/ Exit
     \/ handle' = "open" /\ Goto("measure")
        /\ UNCHANGED <<device, program_size, buffer, program>>

(* fseek, ftell, rewind: the length of the file at that moment; 0 too if fseek fails,
   and -1 if ftell does, so that program_size + 1 is 0. *)
Measure ==
  /\ At("measure")
  /\ program_size' \in -1 .. MaxSize /\ Goto("malloc")
  /\ UNCHANGED <<device, handle, buffer, program>>

(* A malloc that fails, and a program_size of -1, lead to a store that is undefined. *)
malloc ==
  /\ At("malloc")
  /\ \/ Undefined
     \/ program_size # -1 /\ buffer' = "allocated" /\ Goto("read")
        /\ UNCHANGED <<device, handle, program_size, program>>

(* fread, of whose result nothing is looked at, and fclose. *)
fread ==
  /\ At("read")
  /\ handle' = "closed" /\ Goto("create")
  /\ UNCHANGED <<device, program_size, buffer, program>>

(* clCreateProgramWithSource; free(program_buffer) *)
CreateProgram ==
  /\ At("create")
  /\ \/ Exit
     \/ program' = "created" /\ buffer' = "freed" /\ Goto("build")
        /\ UNCHANGED <<device, handle, program_size>>

clBuildProgram ==
  /\ At("build")
  /\ \/ program' = "built" /\ Goto("returned")
        /\ UNCHANGED <<device, handle, program_size, buffer>>
     \/ Goto("log") /\ UNCHANGED local

(* The log is printed; its malloc is not checked. *)
PrintLog == At("log") /\ (Exit \/ Undefined)

Next ==
  \/ clGetPlatformIDs \/ clGetDeviceIDs \/ fopen \/ Measure \/ malloc \/ fread
  \/ CreateProgram \/ clBuildProgram \/ PrintLog

Spec == Init /\ [][Next]_vars
-----------------------------------------------------------------------------
(* Properties. *)

(* Whatever fails on the way, a build_program that returns does so with a built program
   for a device that was found, a CPU only where OpenCL says that there is no GPU, and
   keeps neither the file nor the buffer. *)
ReturnsBuilt ==
  pc = "returned" =>
    /\ program = "built" /\ handle = "closed" /\ buffer = "freed"
    /\ device = "GPU" \/ (device = "CPU" /\ gpu = "absent")
=============================================================================
