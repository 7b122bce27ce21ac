------------------------------- MODULE Libraries -------------------------------
(***************************************************************************)
(* The three parts that serve a program on their own and never meet: the   *)
(* directory list, the dispatcher and the Cairo image.  A behaviour is one *)
(* of one part, while the others stay as they start.                       *)
(***************************************************************************)
EXTENDS DirectoryList, EcoreDispatcher, CairoImage

VARIABLE part

librariesVars == <<part, vars, dispatcherVars, imageVars>>

ListPart ==
  part = "list" /\ Next /\ UNCHANGED <<part, dispatcherVars, imageVars>>
DispatcherPart ==
  part = "dispatcher" /\ DispatcherNext /\ UNCHANGED <<part, vars, imageVars>>
ImagePart ==
  part = "image" /\ ImageNext /\ UNCHANGED <<part, vars, dispatcherVars>>

LibrariesInit ==
  /\ part \in {"list", "dispatcher", "image"}
  /\ Init /\ DispatcherInit /\ ImageInit
  /\ part # "list" => recursive_level = NO_LIMIT /\ fileFilterList = <<>>
                                                 /\ file_type = "DIRECTORY"

LibrariesNext == ListPart \/ DispatcherPart \/ ImagePart

\* The program goes on with a walk, the main loop with what the pipe has for it,
\* and the kernel with a write for which there is room.
LibrariesSpec ==
  /\ LibrariesInit /\ [][LibrariesNext]_librariesVars
  /\ WF_librariesVars(part = "list" /\ Walk /\ UNCHANGED <<part, dispatcherVars, imageVars>>)
  /\ WF_librariesVars(part = "dispatcher" /\ MainLoop /\ UNCHANGED <<part, vars, imageVars>>)
  /\ \A t \in Threads :
       WF_librariesVars(part = "dispatcher" /\ write(t) /\ UNCHANGED <<part, vars, imageVars>>)

\* The types of the parts.
LibrariesTypeOK == TypeOK /\ DispatcherTypeOK /\ ImageTypeOK
=============================================================================
