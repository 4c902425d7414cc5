------------------------------ MODULE Drivers ------------------------------
(***************************************************************************)
(* The drivers a build registers and what each of them declares: its       *)
(* capability flags (Driver constructors, mdal_driver.cpp) and the largest *)
(* face it can store.  Constant operators only: every stateful module of   *)
(* the project reads them.                                                 *)
(***************************************************************************)
EXTENDS Integers

CONSTANT Drivers   \* the names DriverManager finds in this build

DriverNames == {"2DM", "PLY", "BINARY_DAT", "ASCII_DAT"}

ASSUME DriversAssumption == Drivers \subseteq DriverNames

-----------------------------------------------------------------------------
(* MDAL_Status, the part of it these modules can raise. *)
Statuses ==
    { "None", "Err_FileNotFound", "Err_UnknownFormat", "Err_IncompatibleMesh",
      "Err_InvalidData", "Err_IncompatibleDataset",
      "Err_IncompatibleDatasetGroup", "Err_MissingDriver",
      "Err_MissingDriverCapability", "Err_FailToWriteToDisk" }

Locations == {"Vertices", "Faces", "Volumes", "Edges"}

(* MDAL::Driver::faceVerticesMaximumCount of a driver that does not        *)
(* override it.                                                            *)
NoFaceLimit == -1

(* caps: mesh and dataset flags; writes: the locations whose               *)
(* WriteDatasetsOn... flag is set; faceMax: faceVerticesMaximumCount().    *)
Driver(caps, writes, faceMax) ==
    [caps |-> caps, writes |-> writes, faceMax |-> faceMax]

TwoDm     == Driver({"ReadMesh", "SaveMesh"}, {}, 6)
Ply       == Driver({"ReadMesh", "SaveMesh"}, Locations, 100)
BinaryDat == Driver({"ReadDatasets"}, {"Vertices"}, NoFaceLimit)
AsciiDat  == Driver({"ReadDatasets"}, {"Vertices", "Faces", "Edges"}, NoFaceLimit)

DriverTable ==
    [d \in DriverNames |-> CASE d = "2DM"        -> TwoDm
                             [] d = "PLY"        -> Ply
                             [] d = "BINARY_DAT" -> BinaryDat
                             [] d = "ASCII_DAT"  -> AsciiDat]

-----------------------------------------------------------------------------
HasCapability(d, c) == c \in DriverTable[d].caps

HasWriteDatasetCapability(d, loc) == loc \in DriverTable[d].writes

FaceVerticesMaximumCount(d) == DriverTable[d].faceMax
=============================================================================
