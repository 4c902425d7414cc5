# A verification project for MDAL

MDAL (the Mesh Data Abstraction Library) gives one C API to unstructured meshes and the
datasets on them, over some thirty file formats. A *mesh* has vertices, edges and faces;
a *dataset group* of a mesh holds *datasets* (time steps) of values at vertices, faces,
edges or volumes. *Drivers* read and write formats. The library is single-threaded: it has
no locks, and one static "last status". What makes it hard is not concurrency but state
that is kept in several places and must agree: counts in the mesh and sizes in the
datasets, what a call reported and what is on disk, what was written and what the reader of
the same format makes of it, and calls that fail half way.

The modules here are translated from the C++ sources. Every definition that models code is
listed in `PROJECT.json` under `map` with the lines it stands for.

## 1. Inventory

| Component | State | Operations | Hard behaviour | What makes it correct |
|---|---|---|---|---|
| C API, mesh half (`mdal.cpp`, `mdal_memory_data_model.cpp`) | `MemoryMesh`: vertices, faces, edges, largest face size; last status | create, add vertices/faces/edges, save, load, close | refused batches that leave something behind; limits of drivers; exceptions across the C interface | tables refer to what exists; a failed call leaves the mesh usable; what is saved can be loaded |
| C API, dataset half (`mdal.cpp`, `mdal_data_model.cpp`, `mdal_driver.cpp`) | groups of the mesh: location, kind, edit mode, datasets, statistics, file | add group, add dataset, add 3D dataset, close edit mode, remove, load | mesh edits under open groups; failure after edit mode ended; retries | datasets fit the mesh; a closed group is frozen, has complete statistics and is on disk |
| Drivers that write datasets (`BINARY_DAT`, `ASCII_DAT`, `PLY`) | one file per group, or the mesh file | `persist`, `load` | full disk, files cut by a crash, names that decide the meaning | reader and writer agree; a broken file is refused or yields something consistent |
| Mesh drivers (`2DM`, `PLY`, `MIKE21`, `XMS_TIN`, ...) | the mesh file | `save`, `load` | fixed buffers, numbering with gaps, element numbers that repeat | the file holds the mesh it was given |
| Driver registry (`mdal_driver_manager.cpp`) | list of drivers | find by name, recognise a file | capabilities that are missing in a build | the right driver, or a status that says why not |
| Statistics (`mdal_utils.cpp`) | - | folds over values | NaN, empty datasets | extremes of all values of all datasets |
| Iterators (`mdal.cpp`, `mdal_memory_data_model.cpp`) | a position in the mesh | next block | buffers of any size, several readers, a mesh that is closed meanwhile | every item once and in order, and the reader's loop ends |
| Dynamic drivers (`mdal_dynamic_driver.cpp`, `Library`) | handles to a shared object, reference counts, mesh ids | load symbols, read, unload | counted by hand | the library stays loaded while it is used |
| DHI dfs plugin (`external_drivers/dhi_dfs`) | open meshes by id, values and levels in memory | read mesh blocks, load and unload values | levels shared by the datasets of a time step, reads that fail | values come top down and fill what was accepted |
| Minimal example plugin | open meshes by id | read mesh blocks | - | as for iterators |
| SELAFIN (`mdal_selafin.cpp`) | one file with the mesh and all groups, shared reader | lazy reads, rewrite through a temporary file | crash between delete and rename; a reader over a replaced file | what was persisted is in the file or in the temporary one; a loaded mesh keeps reading its own values |
| UGRID on CF (`mdal_ugrid.cpp`, `mdal_cf.cpp`) | one netCDF file; the driver's open handle and requested mesh | load, save, `persist` | a handle that stays open, definitions before values, groups made of names | a reported group is found again; a close that fails loses nothing |
| FLO2D (`mdal_flo2d.cpp`) | a folder of text files and one HDF5 file | load of 1D and 2D meshes, `persist` | banks shared by nodes, corners shared by cells, the search for a name | the mesh is the one the files describe; stored groups stay |
| Other readers over HDF5, NetCDF, GDAL, XML | handles of those libraries | `load`, lazy reads | mostly I/O | not modelled, see section 7 |

Components interact by calls only: the API calls the `DriverManager`, which recognises a
file or finds a driver by name; a driver's `load` builds a `MemoryMesh` (or its own lazy
mesh) and groups; `MDAL_G_closeEditMode` calls the group's driver's `persist`, which reads
counts from the mesh and values from the datasets; `DriverPly::persist` saves the whole
mesh with all of its groups; `DriverSelafin::persist` rewrites the group's file through a
temporary one and closes the reader of the group's mesh; `DriverUgrid::persist` and
`DriverFlo2D::persist` add the group to a file that other calls load from. A mesh of a
plugin is an id: each call on it, on one of its iterators or datasets goes through the
plugin's library, which all of them keep open together.

## 2. Modules

| Module | Models | Extends |
|---|---|---|
| `Drivers` | capability flags, face limits and statuses (constant operators) | |
| `MemoryMesh` | the mesh half and the 2DM and PLY mesh files | `Drivers` |
| `MemoryMesh_proofs` | theorems about `MemoryMesh` | `MemoryMesh` |
| `DatasetGroups_proofs` | theorems about `DatasetGroups` | `DatasetGroups` |
| `DatasetFiles` | groups and dataset files as values, what each writer makes of them (constant operators) | `Drivers` |
| `GroupLifecycle` | the abstract promise about dataset groups | |
| `DatasetGroups` | the dataset half, `persist` and `load` of BINARY_DAT and ASCII_DAT, `persist` of PLY; implements `GroupLifecycle` | `DatasetFiles` |
| `MeshSession` | both halves on one mesh: it takes its mesh steps from `MemoryMesh` and its group steps from `DatasetGroups` with `counts` computed from the mesh | `MemoryMesh`, instance of `DatasetGroups` |
| `MeshSession_proofs` | theorems about both halves on one mesh | `MeshSession`, `MemoryMesh_proofs`, instance of `DatasetGroups_proofs` |
| `SelafinFile` | the SELAFIN driver: lazy meshes, the shared reader, the file and `file.tmp` step by step | |
| `SelafinFile_proofs` | theorems about SELAFIN files and the meshes that read them | `SelafinFile` |
| `UgridFile` | the UGRID driver on the CF reader: one netCDF file, the instance of the driver that keeps it open | |
| `UgridFile_proofs` | theorems about UGRID files | `UgridFile` |
| `BlockReader` | the abstract promise of an iterator to its reader | |
| `PluginMeshes` | libraries, plugin meshes and iterators; implements `BlockReader` | instance of `BlockReader` |
| `PluginMeshes_proofs` | theorems about the library handles and the readers, the refinement of `BlockReader`, what a reader may conclude from it | `PluginMeshes` |
| `DfsData` | values, flags and levels of the DHI dfsu plugin, and `MDAL_D_data` over them | |
| `DfsData_proofs` | theorems about its values, levels and answers | `DfsData` |
| `Flo2dMesh` | what the text files of a FLO2D folder describe (constant operators) | |
| `Flo2dFolder` | loading from such a folder and adding groups to its TIMDEP.HDF5 | `Flo2dMesh` |
| `Flo2dFolder_proofs` | theorems about the groups in TIMDEP.HDF5 and the loaded meshes | `Flo2dFolder` |
| `MC_*` | inputs for TLC | |

### How state and actions correspond to the code

`MemoryMesh`. `nVertices`, `faces` and `edges` are `MemoryMesh::mVertices`, `mFaces` and
`mEdges`; coordinates do not matter to any check and are dropped. A face keeps its size and
its lowest and highest index, which is all that `addFaces` looks at. `faceMax` is
`mFaceVerticesMaximumCount`. `AddFaces` and `AddEdges` are the two rules for batches:
all or nothing (with the largest size raised on the way) and as far as it goes. An `int`
index below zero becomes a huge `size_t`: the model keeps the negative number and
the comparison that the code makes. For edges the code compares the signed number, so it
passes. `SaveMesh`, `SaveMeshUnopened`, `SaveMeshStopped`, `SaveMeshThrows` and
`SaveMeshDies` are the ways `MDAL_SaveMesh` ends. `WrittenFaces` is the 2DM writer's loop:
which line it writes for a face, including the line of the element before when the face has
neither three nor four vertices, and any size of three or four when the iterator delivered
nothing and the size was never assigned. A `.2dm` file that repeats an `ND` line
(`VertexLine`) is refused when it is loaded.

`DatasetGroups`. A dataset keeps the number of doubles and of flags it stores and the set of
its values that are not NaN. Closing is one action per driver, each containing the whole
handler: statistics, end of edit mode, `persist` and the status. A file that cannot be
opened, a disk that fills up (`"disk full"`) and a process that is killed while it writes
(`"killed"`) are outcomes of these actions. After a fault a file is `empty`, a `header`, a
number of `steps`, possibly with a torn one, or `whole`. Loading follows the order of the
checks of each reader. Where a reader misreads the file (`AsciiMisread`) or is cut inside a
card, the outcome is a choice between everything the code can make of it. An assertion that
fails or an empty vector that is read ends the process (`CloseDies`, `LoadAsciiDatDies`):
the debug builds abort, and in the release builds the read of an empty vector is undefined.
Names of groups matter only for PLY's "Bed Elevation", which only loaded groups carry here.
For ASCII files two notions of a name with `_els` are kept apart: `ElsUris` is what `persist`
looks at (the whole uri, directories included), `ElsNames` what the reader looks at (the base
name without the extension); `ElsName` is the name `persist` makes, which is one of `ElsUris`
and need not be one of `ElsNames`. A step that is read on a mesh that asks for more lines than
were written for it runs into the cards behind it (`Swallows`).

`MeshSession`. Adding to a mesh clears its groups even if the call is refused. A mesh that
is loaded brings the bed elevation, and further groups: those of the PLY file as far as its
reader gets, the element numbers of a 2DM file where they are not 1, 2, 3, ... The groups of one
PLY file are taken to have different names: the reader finds properties by their names
(`mdal_ply.cpp:51`), and gives the values of two of one name to the first of them.

`SelafinFile`. The mesh in memory is one of a client or a lazy one, which reads through
`source` (`MeshSelafin::mReader`: whether it has parsed its file, and what it found). Every
access to a lazy mesh parses the file again if `closeSource` closed the reader (`Access`).
A file is its number of vertices, its variables (each with the number of values that were
written for it) and its number of time steps; values are the name and the component of the
variable they were written under, so that a reader that looks at the wrong variable shows.
The number of time steps is computed from the bytes, as `parseFile` does (`StepsFound`).
`frame` says how much of the part before the time steps is there: a `short` one still parses
but has not all coordinates, a `cut` one does not. Of names the model keeps what
`populateDataset` makes of them (`ReadAs`): lower case, "along x" and "along y", cut after 32
characters. Closing a group is a sequence of steps (`PersistStarts`, `MeshFileCreated`,
`GroupAdded`, `FileDeleted`, `TempRenamed`) between which the process may be killed, each
with the ways it can fail. One step is one effect on the disk: no other process works on
the files, so finer ones would show nothing to anybody but a process that starts after
`Killed`, which chooses among what the streams may have written out. Groups of a client
leave the list when they are closed: they keep their values in memory and are never read
from a file. A `file.tmp` that is left behind while the file is there is no state: the next
one overwrites it and nothing reads it. `promised` is history.

`UgridFile`. A file is its meshes, its time dimension and its variables, each on a mesh and
a place of it. The C++ reader puts variables together to groups by their names, and so does
`Components`; what a name is read as is `ReadAs`, because `h_y_` as the name of a scalar is
the name of the y component of `h`. A variable also has its netCDF name (`id`), by which alone
the driver finds that a name is taken (`NameTaken`): its own are made of the mesh's and the
group's name (`VarName`), those of a foreign file may be any, and a mesh has names of its own
(`own`). A mesh whose name has a space is written with a `node_coordinates` attribute of more than two
words and cannot be selected (`Spaced`, `Selectable`). A group without time is read
with the file's first time if it has one (`ReadGroup`). `driver` is the instance that `DriverManager` keeps: it
opens the file in `writeDatasetGroup` and leaves it open, and it remembers the mesh it was
asked for. Until it closes (`DriverCloses`, at its next use) others may see the file as
`driver.others`; a mesh that is saved to the same file meanwhile is created beneath it, and
what its close then leaves may be unreadable (`Damaged`). Loading by the driver's name goes
to an instance of its own (`LoadMeshByDriver`), without it the kept one is asked first
(`LoadMesh`). `FailedWrite` says what each of the ways of failing leaves in the file: no
change, the time dimension, one component, or all variables full of fill values.

`PluginMeshes`. `refs` is `Library::Data::mRef`. A copy constructor counts twice because it
goes through the assignment (`CopyReferences`), the destructor once: references only ever
run too high. `LoadMesh`, `OpenRefused` and `PopulateFails` are the ways
`DriverDynamic::load` ends. An iterator has a position and, as history, what it delivered
(`got`). `Item` says from which place of which mesh something was copied, so that a block
read through a stale `mNextConnectivityPosition` shows. Memory meshes are read with the rule
of `MemoryMeshFaceIterator` (stop before the largest face might not fit), plugin meshes with
that of `Mesh::connectivity`. The example plugin copies vertices and edges from the start
whatever the position is; the model does so, and the refinement counts them only.

`DfsData`. A value is the number of its element in the file. `BuildLevels` is
`LevelValuesGenerator::buildVolumeForTimeStep`, `OnVolumes` and `Reversed` are
`reverseAndActiveData`; that it makes NaN of the values that stand for nothing, and flags of
them, in columns of more than one volume only (`mdal_dhi_dfs.hpp:185`), is left out. When a mesh is loaded MDAL asks each dataset for everything, for the
statistics, and unloads it with the levels of its time step (`PopulateOnVolumes`);
`Accepted` is the bound of `MDAL_D_data` with the counts noted then. Assumed: the reads of
the levels of one call all fail or all succeed, and elements without a height are only found
over the last face (the plugin computes positions from the heights it finds, and its
positions would differ from the file's behind any other). The float branch of the reader is
taken to do what the double branch does.

`Flo2dMesh`, `Flo2dFolder`. All coordinates are even integers, in a unit that makes corners and
middles whole; rounding is left out. `CornerSide` and `CornerInGrid` are the two `switch`
statements that place a corner and find it in the grid. `Linked` is the body of
`parseCHANBANKFile`, `Toward` how `createMesh1d` moves a vertex to the middle of its banks.
`OutRead` says which of the OUT files' groups are there; a `broken` file has a line of a wrong
shape. Closing a group first opens or makes TIMDEP.HDF5 (`CloseEditMode`), then looks for a
name with the steps `FindTaken` and `NextName`, then writes; a write may throw before the
group, before its Values or at them, and a process that is killed meanwhile may leave a file
nothing can be read from. A name is a path in the file: `Above` says which group it lies in,
and a group can only be made where that one is (`Reached`). The reader lists the groups that lie
in no other (`NamesInOrder`). A name is taken to be none of the paths of what each group holds
("h/Values"), for which the code would find it taken. The file groups are added to is the one the
folder's results are read from.

`MDAL_G_closeEditMode` also looks for the group's driver and its capability a second time;
the driver of a group that could be added has both, so those branches cannot be reached
and are no actions.

## 3. Runs

| Run | Question | Bounds |
|---|---|---|
| `memory_mesh` | Do refused batches, failed savings and reloads keep the tables sound? Are quads and triangles saved faithfully? | a mesh of 3 or 6 vertices, batches of up to two, two elements; a face that fits only the second batch of vertices, one over the 2DM limit, one with a negative index; a driver with limit 6, one with 100, one with none |
| `dataset_groups` | Do groups, statistics and binary files agree, with a full disk? Does the same hold of groups at vertices and volumes that are closed into PLY files? Do groups implement `GroupLifecycle`? | one group of up to two datasets at vertices or volumes, BINARY_DAT and PLY, two value sets, a mesh with and one without faces, fault "disk full" |
| `ascii_files` | The same for ASCII files at all 2D locations, with kills | three meshes that agree pairwise in their number of vertices or of elements; three file names, one with `_els` in its base name and one only in its directory's, and groups in at most two of the files at a time (`MaxFiles`); fault "killed" |
| `selafin_file` | Is what was persisted still there after any sequence of closes, faults and restarts? Does a loaded mesh go on reading its values? | one file, meshes of 0, 1 and 2 vertices, two groups, up to three variables in the file, no or one dataset, a plain name and one that is cut, all five faults |
| `mesh_session` | Does anything the mesh half does leave groups, in memory or in a mesh file, that do not fit? | one face or edge on three vertices and three more to come, one group on volumes, scalar or vector, driver PLY |
| `element_numbers` | Do the groups a 2DM file brings fit the mesh it brings, however the file was written? | two faces and an edge, one face of five vertices, so that lines repeat |
| `ugrid_files` | Is a reported group found again, and does a later close, failed or not, leave alone what was there? | one file, at first absent or one of two foreign ones with a network and a 2D mesh; meshes with no vertex, one vertex at the fill value, and three with a face, saved under a plain name and one with a space; groups over six names, one of them read as a component, one that makes the name of a variable of the mesh, one that a foreign variable of another netCDF name is read as; up to three variables; all three faults |
| `plugin_meshes` | Does every reader get its whole mesh and end? Is a library open while it is used? | two plugins of either style, one without mesh functions, one without open; one mesh handle, two iterators, up to two meshes opened, faces of mixed size, blocks of several sizes |
| `dfs_data` | Do values come top down and in the size accepted, whatever was unloaded or failed before? | two files with two columns of two and three elements, one where the top one of the second column is missing at the second step, one where that of the first is; scalar and vector groups; a file on two faces, one dry; fault "values" |
| `flo2d_folder` | Are the meshes the ones the files describe? Do stored groups come back and stay? | all arrangements of up to three cells in two rows and of two nodes over four cells, results of every kind; four groups over three names, one of which lies in another's group, up to three stored, two sizes of other meshes; both faults |
| `saved_mesh_reloads` | `mdal.h`: a saved mesh is saved, or an error is reported | a face of five vertices or more |
| `every_close_ends` | A comment of `mdal_flo2d.cpp`: the search finds a name | three groups of one name |

The bounds are enough for what the properties tell apart. Batches are processed from left to
right and stop at the first bad element, so two elements show "all", "nothing", "part" and
"after something". `faceMax` and the writer's buffer only compare with 3, 4, 6 and the
driver's limit. Two datasets show a first, a last and a cut between them. Groups influence
each other only in files that hold several: a PLY file is written from all groups of the
mesh; a SELAFIN file grows by one group at a time, of which `selafin_file` has room for a
vector and a scalar or three scalars; a UGRID file likewise; in TIMDEP.HDF5 two stored
groups are enough for a name that is taken, and for a broken one before a whole one, and a third
for a group that lies in another. The
SELAFIN rewriting treats all time steps alike, so none and one show what the count decides.
The mesh enters the dataset half only through its counts, of which each run has a pair that
differs in each number a reader compares. What a block delivers depends on the position, the
face sizes and the buffer: mixed faces and buffers for one and for two of them show every
rest, and two iterators show one that finds the other's cached position. FLO2D cells only
meet their neighbours: three cells show a corner shared by two and by three of them, in
every order. Two nodes show every way in which left and right banks can coincide. What holds
for all values of the constants is in section 6.

Wider instances that hold as well, and are too long or too close to a run to be kept as
one: `dataset_groups` with both faults for BINARY_DAT at vertices and faces; two groups, scalar
and vector, at faces and volumes of one PLY file; `selafin_file` with two files, once with
kills and two variables, once without faults and three.

The library does nothing on its own, so most modules need no fairness. Two do.
`FairPluginSpec` is weakly fair to the next block of each iterator: MDAL's own loops over a
mesh it saves, and a client's, ask for the next block until one is empty; that such a loop
ends is `ReadingEnds`. `FairFlo2dSpec` is weakly fair to the steps of a close that has
begun: the call runs in one thread and nothing else runs in it. TLC checks every run for
deadlock.

## 4. Properties

*Mesh half.* `FaceTableSound` is the precondition the face iterator asserts;
`EdgeEndsBelow` the corresponding one for edges. `OwnDriverAccepts`: no sequence of
accepted and refused calls makes a mesh that `MDAL_SaveMesh` calls incompatible with the
driver it belongs to. It depends on the order of the checks in `addFaces`.
`FailedCallKeepsMesh` and `MeshOnlyGrows` are action properties. `SavedQuadsReload` is the
part of "what was saved can be loaded" that the code keeps.

*Dataset half.* `DatasetsFitMesh` (in the ASCII run): sizes in datasets against counts in
the mesh, which a client uses for its buffers. `WrittenForItsMesh`: the same inside a file,
whose header comes from the mesh and whose steps come from older datasets.
`StatisticsCoverDatasets`: the statistics a closed or loaded group announces.
`CloseReported`: the first close that reports nothing has put all datasets into the file the
group names afterwards; a full disk is excepted because the code cannot notice it.
`PersistedReloads`: what the file still holds comes back through the same driver, at the
same location, with the same values - of an ASCII file if `_els` is in its base name just when
the group is not at vertices (`NamedForLocation`, section 5). `ImplementsLifecycle` is the refinement of
`GroupLifecycle`, with edit mode as the seal.

*SELAFIN.* `LazyReadsItsData`: through every rewriting of its file by the closing of other
groups, failed or not, the groups of a loaded mesh read the values they had when it was
loaded. `PersistedStays`: a group that a close reported as persisted can be loaded from the
file, or from `file.tmp` if a crash fell between the delete and the rename. `TempSupersedes`:
at the moment before the delete, `file.tmp` gives back all the file does. They except a full
disk, which the code does not notice, a file that was written for a mesh of another
size (section 5), one that the process was killed while creating, and names that two groups
share once the reader has changed them. A failed rename loses the file; it ends the promise.

*Session.* `GroupsFitMesh` and `SavedGroupsFit` in memory and in mesh files, `GroupsLive`
the same refinement under mesh edits and loads.

*UGRID.* `UgridMeshReloads`: a mesh saved under a name without a space comes back with its
vertices and faces, also with none, where the file has a dimension of one fill value. `GroupsReload`: a group that a close
reported as written loads with its components, times and values, after whatever followed and
after a kill. `GroupsStay`: no close and no load, failed or not, changes what could be loaded
before, but for a group without time, which takes the first time and the reference time of the
file once it has one (`StaysAs`). Both are about files whose names mean to the reader what they
meant to the client (`PlainNames`): a scalar named like a component changes what the group it
seems to belong to is, and so does a variable that another program gave its group's name with
another netCDF name (section 5).

*Plugins.* `ReaderSpec` is the refinement of `BlockReader`. `ReadingEnds`: a loop that reads
blocks comes to an end. `LibraryStays`: no library is closed under a driver, a mesh or an
iterator that still calls into it, iterators that outlive their mesh included.

*Dfs data.* `DataTopDown`: the order the plugin promises MDAL, whenever the values were read
and whichever dataset took the levels with it, up to the first face that lacks a level
(section 5). `AcceptedIsFilled`: a request that MDAL accepts
by the counts it noted is filled by the plugin, or gets nothing; for vectors, which are bounded by
twice the number of volumes although start and count are in elements (`mdal.cpp:1341`), only what
lies within the volumes is asked for. `ValuesStay`.

*FLO2D.* `CellsTiled`: each face is the square around its cell's centre, its corners in order
around it, and cells that touch share their vertices. `ChannelsLaid`: nodes lie between their
banks, edges join the nodes of a reach, each hydrograph is found at its own node, for banks as
the documents describe them. `Flo2dGroupsReload` and `StoredStay`: groups come back, with 0 as
nothing, and no close overwrites one. They speak of files in which no group ends the reading of
those after it (`Sound`, section 5), the first of groups that lie in no other.

Every property of a passing run has a mutant in the module it is about: a definition marked
"Mutant" that changes the code the way a plausible mistake would, for which TLC finds the
property violated.

## 5. Where the code departs from what it says

* A mesh with a face of five or six vertices is accepted by the 2DM driver and written
  wrongly without an error (`SavedMeshReloads`).
* When a group's name and that name with `_0` are taken in TIMDEP.HDF5, the search for
  another never ends: its counter is not increased (`EveryCloseEnds`).

Further departures that were met while the code was modelled, and that the models follow.
No run is about them alone; the properties above are stated so that they hold beside them.

* An edge with a negative index is accepted; `MDAL_SaveMesh` then throws out of the C
  interface (`mdal_memory_data_model.cpp:337`).
* A second `MDAL_G_closeEditMode` after a failed one reports success and writes nothing
  (`mdal.cpp:1076`).
* Active flags are optional for `MDAL_G_addDataset` (`mdal.h:651`), but closing a BINARY_DAT
  group without them asserts (`mdal_binary_dat.cpp:469`).
* Of several groups on volumes in a PLY file only the first comes back (`mdal_ply.cpp:365`).
* `DriverAsciiDat::persist` looks for `_els` in the whole uri and inserts it four characters
  before the end (`mdal_ascii_dat.cpp:491`), the reader looks for it in the base name without the
  extension (`mdal_ascii_dat.cpp:157`). A group at faces that is closed into `x_els/vel.dat`, or
  into `vel.ascii`, which becomes `vel.a_elsscii`, is written without an error and read back
  at vertices; TLC finds this when `PersistedReloads` is stated without `NamedForLocation`.
* A mesh that is saved to a UGRID file as "my mesh" is reported as saved and never loads: its
  node_coordinates attribute has four words (`mdal_ugrid.cpp:993`) and the reader throws unless
  there are two (`mdal_ugrid.cpp:706`). Only `persist` replaces spaces (`mdal_ugrid.cpp:952`).
  Nor does a mesh's only face come back if it has no vertices (`mdal_ugrid.cpp:381`); faces have
  some in the model.
* A close into a UGRID file is refused when its netCDF variable is there
  (`mdal_ugrid.cpp:852`, `881`), while the reader goes by `long_name` and `standard_name`
  (`mdal_ugrid.cpp:523`). Beside a variable of another program that has the group's name there, a
  new scalar is written without an error and passed over by the reader (`mdal_cf.cpp:168`), and
  a new component takes the other one's place.
* The first group with times that is added to a UGRID file gives its first time, and its
  reference time, to all groups without any (`mdal_cf.cpp:375`, `384`).
* Adding a group that belongs to a mesh with another number of vertices replaces a SELAFIN
  file by one that cannot be read: only the number of time steps is compared, and the result
  is parsed after the replacement (`mdal_selafin.cpp:1205`).
* A vector named "velocity v" is written to a SELAFIN file as "velocity v along x" and
  "... along y" and comes back as two vectors, each with one component twice: the second
  name is read as that of "velocity" (`mdal_selafin.cpp:314`).
* A group with one dataset is added to a UGRID file of several time steps without a look at
  its time (`mdal_ugrid.cpp:790`; `ugrid.rst:13` says that the times have to be the same).
* A FLO2D node whose right bank is 0 ends the loading (`mdal_flo2d.cpp:158`), although
  `flo2d.rst:34` and the comments at 142 and 411 of the same file describe it. A left bank
  that was the right bank of an earlier node takes it away from that node
  (`mdal_flo2d.cpp:180`).
* A group in TIMDEP.HDF5 without Values, which a failed close leaves, or of a mesh of
  another size, hides all the groups that come after it (`mdal_flo2d.cpp:945`). A file of
  which only the first part was made refuses every later close (`mdal_flo2d.cpp:1190`).
  Adding a group to a folder with results in OUT files makes a TIMDEP.HDF5 that is read
  instead of them (`mdal_flo2d.cpp:1163`).
* The name of a group is used as a path in TIMDEP.HDF5 (`mdal_flo2d.cpp:1284`). A group
  "Depth/Maximums" - the driver gives this name itself - is made inside the group "Depth" if there
  is one, reported as written, and never listed again (`mdal_flo2d.cpp:920`); without "Depth" the
  close fails. TLC finds the first when `Flo2dGroupsReload` is stated without `Above`.
* Rows that one block of HYCHAN.OUT has more than the next stay in the reader's buffer
  (`mdal_flo2d.cpp:371`): blocks of different lengths are misread. `ChannelsLaid` asks for
  hydrographs of blocks of one length only.
* The rows of TIMDEP.OUT are counted against the vertices and not the cells
  (`mdal_flo2d.cpp:582`); a HYCHAN.OUT of one block without a line after it gives no values
  (`mdal_flo2d.cpp:370`).
* The example plugin ignores the start index it is given for vertices and edges
  (`mdalDummyExternalDriver.cpp`).
* A dfsu file has a value for every element, also for those without height, and `readData`
  reads all of them (`mdal_dhi_dfs.cpp:893`). `reverseAndActiveData` looks for the values of a
  face at the number of *volumes* before it (`mdal_dhi_dfs.hpp:171`). After a face that lacks a
  level the values of the other faces are therefore those of other elements: over two faces of
  two and three elements, the first without its top one, the values handed out are those of
  the elements 0, 3, 2, 1 and not 0, 4, 3, 2. TLC finds this when `DataTopDown` is stated without
  `FullBefore`. A face with no height at all counts -1 volumes (`mdal_dhi_dfs.cpp:831`); that is
  left out of the model.
* When the levels of a time step cannot be read, the dfsu plugin returns its values without
  having turned them (`mdal_dhi_dfs.hpp:174`), and flags after a failed read of values are
  all 0.
* A plugin without `MDAL_DRIVER_closeMesh` is refused, and the destructor of the refused
  mesh calls the function that was not found (`mdal_dynamic_driver.cpp:129`).

The models also have outcomes that no document excludes and for which no property is stated:
a SELAFIN file of a mesh without vertices, which the driver itself writes, makes every
process that opens it divide by zero (`LoadMeshDies`, `AddDies`); saving a loaded SELAFIN mesh
onto its own file truncates it before it is read (`SaveMeshDies`); when the rename fails after
the delete, both files are gone (`RenameFails`); a mesh file that cannot be opened for writing
is reported as saved by PLY and SELAFIN (`SaveMeshUnopened`).

## 6. What is proved

`MemoryMesh_proofs` proves, for every set of drivers, files and inputs and all bounds that
satisfy the assumptions of `Drivers` and `MemoryMesh` (which say only what kind of values
the constants are):

| Theorem | Statement |
|---|---|
| `MeshInvHolds` | `MeshSpec => []MeshInv` |
| `MeshTypeCorrect` | `MeshSpec => []MeshTypeOK` |
| `FacesStaySound` | `MeshSpec => []FaceTableSound` |
| `EdgesStayBelow` | `MeshSpec => []EdgeEndsBelow` |
| `OwnDriverKeepsAccepting` | `MeshSpec => []OwnDriverAccepts` |
| `QuadsReload` | `MeshSpec => []SavedQuadsReload` |
| `MeshGrows` | `MeshSpec => MeshOnlyGrows` |
| `FailedCallsKeep` | `MeshSpec => FailedCallKeepsMesh` |

The argument. None of the safety invariants is inductive alone, because a mesh can come
from a file: `LoadMesh` needs to know that the file's faces fit the file's vertices and its
driver. `MeshInv` therefore adds `FilesSound` to the types and tables: in every mesh
file the saved mesh and the records that were written are sound with respect to each other,
and within the limit of the driver that wrote them. For the 2DM writer that is the lemma
`WrittenFacesSound`: whichever line it repeats, the line is that of an earlier face, that of
a vertex, or one of size three or four at vertex 0, and a file with a vertex line is not
loadable. `SaveAccepted` carries the driver's check in `MDAL_SaveMesh` into the file,
`LoadMeshSound` carries it back. `MeshInvNext` goes through the actions one by one.
`QuadsWrittenAsTheyAre` is the heart of `QuadsReload`: if no face is larger than the buffer
every line is the face's own. The action properties follow from the steps of an open
mesh (`OpenMeshSteps`).

`DatasetGroups_proofs` does the same for the dataset half, for every set of drivers, files,
value sets and faults that satisfies `GroupsAssumption`. Of its assumptions one says more than
what kind of value a constant is: a set of values has a least and a greatest element if it has
any (the values of a dataset are finitely many). Of the names `persist` makes it only says that
they have `_els` in the uri, as its code does; that the reader finds it there is the premise of
`PersistedReloads` and not an assumption.

| Theorem | Statement |
|---|---|
| `GroupsInvHolds` | `GroupsSpec => []GroupsInv` |
| `GroupTypesCorrect` | `GroupsSpec => []GroupTypeOK` |
| `DatasetsStayFit` | `GroupsSpec => []DatasetsFitMesh` |
| `FilesOfOneMesh` | `GroupsSpec => []WrittenForItsMesh` |
| `StatisticsStayComplete` | `GroupsSpec => []StatisticsCoverDatasets` |
| `PersistedGroupsReload` | `GroupsSpec => []PersistedReloads` |
| `ReportedClosesKeep` | `GroupsSpec => CloseReported` |
| `RefinesLifecycle` | `GroupsSpec => ImplementsLifecycle` |

The argument. What is in memory may come from a file, and what is in a file was written from
memory on a mesh that may have changed since. So the invariant says of a group that its
datasets fit the open mesh (`GroupSound`), and of a file that its datasets fit the mesh of
its own header, and what each driver may have written where (`PartSound`, `FileSound`).
Loading carries the second to the first: the lemmas about the readers say that whatever
counts a reader compares, the sizes of what it makes are those of the open mesh, whichever
location the file's name makes an ASCII file have. `StatisticsOfAll` shows that combining
the extremes of the datasets gives the extremes of all values. For the refinement each
action is shown to map to a step of the life cycle or to a stutter, the invariant supplying
that a group leaves edit mode with complete statistics.

`MeshSession_proofs` is about both halves on one mesh, for all meshes, mesh files, drivers,
groups and group files:

| Theorem | Statement |
|---|---|
| `SessionInvHolds` | `SessionSpec => []SessionInv` |
| `GroupsStayFit` | `SessionSpec => []GroupsFitMesh` |
| `SavedGroupsStayFit` | `SessionSpec => []SavedGroupsFit` |
| `SessionMeshSound` | `FaceTableSound`, `EdgeEndsBelow`, `OwnDriverAccepts` hold in a session |
| `SessionGroupsSound` | so do `StatisticsCoverDatasets`, `WrittenForItsMesh`, `PersistedReloads` |
| `SessionRefinesLifecycle` | `SessionSpec => GroupsLive`: a session implements `GroupLifecycle` |
| `SessionKeeps` | `MeshOnlyGrows` and `CloseReported` hold of its steps |

The argument. `SessionInv` is the invariants of both halves, that a mesh that is not open has
no groups, and `MeshGroupsSound`: the groups in a `.ply` file fit the mesh that was saved with
them, and a whole `.ply` file gives that mesh back unchanged. The last part is what
loading needs, since the groups then meet the mesh as it was read. In a session `counts`, a
variable of `DatasetGroups`, is an expression over the mesh; the lemmas of the dataset half
come in through the instance `P` of its proofs, and `MemoryMesh_proofs` says that the mesh
half's steps keep `MeshInv`. What is left are the steps in which one half touches the other:
an edit, which drops the groups as the mesh grows; saving as `.ply`, where
`PlyGroupsSound` shows that the first dataset of each group of a location fits; loading, where
`FromPlyFits` and `From2dmFits` say that the groups a mesh file brings fit the mesh it brings;
and the ends of the process. `Picked` lists the groups of a location in their order; that a
finite set of positions has such a listing is proved by counting (`PositionsListed`).

This proof changed the model in one place. `GroupsAssumption` used to say that no mesh has
faces or edges and no vertices. As an assumption on constants that held in
`DatasetGroups`, whose meshes are chosen; in a session it would be a claim about the mesh, and
a false one: a face without vertices can be added to a mesh that has none. `PersistedReloads`
now asks for a mesh with vertices instead.

`PluginMeshes_proofs` proves, for any number of plugins, meshes and iterators, `PluginTypes`
(`PluginTypeOK`), `LibrariesStay` (`PluginSpec => []LibraryStays`) and the refinement
`IteratorsAreReaders` (`PluginSpec => ReaderSpec`). `LibraryInv` counts what holds a library:
one for the driver, one for a mesh and one for each of its datasets, one for an iterator, and
says that the references taken by hand are never fewer; it uses that the sets of handles are
finite. `ReadersInvHolds` adds to it where an iterator stands in its mesh, or that it was told
its end. Each step is then shown to deliver the block `BlockReader` allows, or to leave the
reader alone. Of the abstract reader itself, an empty block means that all was delivered
or the mesh is gone (`OverMeansAll`, from `ReadersComplete`); by the refinement a loop over a
plugin's iterator that stops at the first empty block has read it all (`LoopsReadAll`).

`DfsData_proofs` is about files of any number of faces, layers and steps, whichever reads
fail: `DfsTypes` (`DfsTypeOK`), `AcceptedComesFull` (`AcceptedIsFilled`), `ValuesComeTopDown`
(`DataTopDown`, if the levels themselves can be read) and `LoadedValuesStay` (`ValuesStay`).
The invariant `DfsInv` (`DfsInvHolds`) says that levels in memory are those of their file,
that values are as many as the counted levels need, and that what MDAL noted of a step is what
the plugin answers. The lemmas about sums and places show that a face's values begin where
those of the faces before it end.

`SelafinFile_proofs` is about any number of files, names, variables and time steps, whatever
names are read as, and all faults. Its invariant `SelafinInv` relates the reader, the files
and the groups:

* what a mesh has read is what its file holds now (`ReaderCurrent`), and while the file is
  being replaced the reader is closed (`ReaderClosed`);
* a file that a call is making holds nothing that was promised, and is not the file a mesh
  is read from if it is saved to it (`JobFile`);
* the file of a loaded mesh serves its groups, and so does the `file.tmp` that is to replace
  it, if they are whole (`LazyServed`); both keep what was promised (`PromisesKept`);
* `file.tmp` is the file with the new group at its end, unless bytes were lost
  (`TempWritten`).

Deleting and renaming hand the second half of these conjuncts to the first, which is why both
halves are needed; `AddedSound` shows that writing `file.tmp` establishes them, and uses that
the number of time steps found in the bytes is the one that was written when all variables
have the size of the mesh (`StepsFoundExact`). The theorems: `SelafinTypes` (`SelafinTypeOK`),
`LazyGroupsRead` (`LazyReadsItsData`), `PersistedGroupsStay` (`PersistedStays`) and
`TempGivesAllBack` (`TempSupersedes`). For the last two, `PromiseGivenBack` and
`LoadedGivenBack` follow `populateDataset` from the variables to the groups: which variable is
the first of its name, which the last of its component. The proof corrected the premise
`NamedApart`: it used to count the variables that are written for a group, and failed for a
vector of which only one component is read under its name, because a further variable of that
name takes the place of one of them. It now counts different values.

`UgridFile_proofs` proves, for all files, meshes, groups and faults, `UgridTypeCorrect`
(`UgridTypeOK`), `SavedMeshesReload` (`UgridMeshReloads`), `UgridFilesGrow`,
`UgridGroupsReload` (`GroupsReload`) and `UgridGroupsStay` (`GroupsStay`): no close and no
load, whether it succeeds or fails halfway, takes anything from a file that is there, or
changes what the groups in it are read as. The assumptions are about files of other programs.
`UgridAssumption`: they have a mesh, and their variables lie on meshes they have, with values
at no more time steps than there are. `ForeignAssumption`: their meshes have different names,
as variables of a netCDF file do, and no group of theirs lacks a component (a file with an
`_y` and no `_x` variable cannot be loaded before the driver adds to it, nor after).

The invariant has two halves. `UgridInv` relates what the driver has written, what others see
of the file meanwhile and the mesh the file was saved with: all three have the same meshes
unless a mesh was saved beneath the open file, so a kill cannot change them. `UgridReads` adds
that groups of plain names have their components, and that what was promised is in the file
and in what a kill would leave of it; nothing is promised of a file that was made anew beneath
the driver. `AddedSound`, `WrittenSound` and `FailedWriteSound` show that every way a close
ends adds variables at the end of the file and changes no other. `Grown` says which: those of
the group, and the first of them under a name that was free. That is the heart of both
theorems. By `NamedSame` a group that is complete is not added to, because one of its
variables already has the name the close would begin with; so either nothing changes about a
group or all of its variables are new (`NewPlaces`), and then it is complete as soon as its
first component is there (`NewComplete`). `NewGroupRead` and `NewComponents` follow the
reader over a group that was just written.

`Flo2dFolder_proofs` is about TIMDEP.HDF5, for every folder, set of meshes and groups and all
faults. Its invariant `FolderInv` adds to the types (`Flo2dTypeCorrect`) that the close under
way looks for the group's own name or that name numbered. A step either leaves every group of
the file as it is or is a kill that wrecks the file (`EntriesAreKept`: `WriteGroup` writes
under a name it has found free). From both follows `PromisesAreKept`: what a close reported
as written stays, under one of the two names, as long as the file can be read. That loading
returns it (`Flo2dGroupsReloadHolds`) follows from `PromisesKept` and from what the reader does
with a file whose groups all have values and are of the mesh's size: it lists each of their
names that lies in no other group (`NamesFound`), finds none that ends the reading, and so
returns each of these groups (`ReadAll`), with the values that were closed (`WrittenReads`). With `StepKeepsEntries` the
same lemma gives `StoredGroupsStay`: what was read before a step is read after it.
`StoredStay` asks for the mesh's size, since a group without datasets fits every mesh
and can be cut off by one of the file's size that is listed before it.

The meshes are those of the text files as long as they are open (`MeshLaid`), so what is left
is about the files. For `CellsAreTiled`, the corners that found their place in the grid empty
are all in different places, and every corner of every cell is at the place of one of them
(`CornersFound`, by induction over the corners in the order they are visited). On a grid
(`OnGrid`) a place belongs to one point: the coordinate of a corner is the grid's lowest plus
the cell size times its place (`CornerAtPlace`, from the least centre, `LeastCoordinate`, and
an even cell size, `SizeIsEven`), so corners share a place exactly when they share a point. For
`ChannelsAreLaid`, the links between cells and nodes are those of the banks (`LinkedSoFar`, by
induction over CHANBANK.DAT): a left bank keeps its own node and a right bank that is known
gets a further one. Therefore a node is moved only at its two banks and ends in their middle
(`PlacedMiddle`), the edges of a reach are there (`EdgesHold`) and the highest block of a node
is the one of its left bank (`HydrographsFound`). Both theorems speak of folders as their
properties do: cells whose centres differ by multiples of a positive cell size; banks that are
cells, a cell the left bank of one node and the right bank of none before.

Six of these modules compute over sequences: the groups of a mesh file, the bytes of a SELAFIN
file, the first variables of their names there and in a UGRID file, the levels and values of a
dfsu file, the names in TIMDEP.HDF5 and the lines of a FLO2D folder's text files, the blocks
of a reader. The models write most of these as recursive
functions on the natural numbers. That such a function exists, what holds for all its values,
and that some places have a first and a last, is proved by least counterexample (`Least` or
`LeastOf`, `UpTo`, `StepsFrom`), from the library's fact that the natural numbers are well
founded.

Only model-checked: the liveness properties, which need fairness and `ENABLED` and so are out
of the prover's reach.

## 7. Not modelled

Formats that only bring data in and keep no state that outlives a call are left out: MIKE21,
XMS_TIN, ESRI_TIN, XMDF, HEC2D, TUFLOW-FV, SWW, 3Di, GDAL, GRIB, XDMF, H2I. What decides their
outcome is the layout of files other programs write, which a small model could only repeat. Also
left out: coordinates (but for FLO2D's geometry) and extents, metadata and projections, uris,
calendar arithmetic, the logger's callback, the statistics' chunks, and the code of libraries
(HDF5, netCDF, libply and the vendor's dfs library are modelled by how this code uses them).

Within the modelled parts: the old ASCII_DAT format; vertex numbering with gaps in 2DM;
SELAFIN groups loaded onto another mesh; UGRID classifications, coordinate systems and
vector components whose dimensions are in different orders; the values of the groups of
FLO2D's OUT files, and those of such files that have more lines than the mesh has cells; two
processes on one file. A `.dfs2` file goes through the same data classes as a `.dfsu` file
on faces. `PROJECT.json` lists all components with what is left out of each.
