----------------------------- MODULE Migrations -----------------------------
(***************************************************************************)
(* The foreign keys of the database once every migration has run: the      *)
(* table a column refers to, whether it may be NULL, and what PostgreSQL   *)
(* does when the row referred to is deleted.  Django itself writes no      *)
(* ON DELETE clause; three migrations add one, and one a SET NULL.         *)
(***************************************************************************)
EXTENDS Naturals, TLC

NotNull(to) == [to |-> to, rule |-> "NO_ACTION", null |-> FALSE]
Nullable(to) == [NotNull(to) EXCEPT !.null = TRUE]

\* Replace the ON DELETE clause of the columns F of a table.
OnDelete(table, F, action) ==
    [f \in DOMAIN table |->
        IF f \in F THEN [table[f] EXCEPT !.rule = action] ELSE table[f]]

\* The table of a ManyToManyField.
Joining(from, to) == [ source |-> NotNull(from), target |-> NotNull(to) ]
-----------------------------------------------------------------------------
\* 0001_initial
CreateCable ==
    [ cable_type |-> NotNull("AttributesCableType"),
      constructor |-> Nullable("AttributesCompany") ]

CreateConduit ==
    [ conduit_type |-> NotNull("AttributesConduitType"),
      constructor |-> Nullable("AttributesCompany") ]

CreateMicroduct ==
    [ microduct_status |-> Nullable("AttributesMicroductStatus"),
      uuid_conduit |-> NotNull("Conduit") ]

CreateTrench ==
    [ construction_type |-> NotNull("AttributesConstructionType"),
      constructor |-> Nullable("AttributesCompany"), flag |-> NotNull("Flags"),
      owner |-> Nullable("AttributesCompany"),
      phase |-> Nullable("AttributesPhase"), project |-> NotNull("Projects"),
      status |-> Nullable("AttributesStatus"),
      surface |-> NotNull("AttributesSurface") ]

CreateTrenchConduitConnection ==
    [ uuid_conduit |-> NotNull("Conduit"), uuid_trench |-> NotNull("Trench") ]

CreateQGISProject == [ created_by |-> Nullable("User") ]

CreateNode ==
    [ constructor |-> Nullable("AttributesCompany"), flag |-> NotNull("Flags"),
      manufacturer |-> Nullable("AttributesCompany"),
      network_level |-> Nullable("AttributesNetworkLevel"),
      node_type |-> NotNull("AttributesNodeType"),
      owner |-> Nullable("AttributesCompany"), project |-> NotNull("Projects"),
      status |-> Nullable("AttributesStatus"),
      uuid_address |-> Nullable("Address") ]

CreateMicroductConnection ==
    [ uuid_microduct_from |-> NotNull("Microduct"),
      uuid_microduct_to |-> NotNull("Microduct"),
      uuid_node |-> NotNull("Node"), uuid_trench_from |-> NotNull("Trench"),
      uuid_trench_to |-> NotNull("Trench") ]

CreateMicroductCableConnection ==
    [ uuid_cable |-> NotNull("Cable"),
      uuid_microduct |-> NotNull("Microduct") ]

AddMicroductKeys == [ uuid_node |-> Nullable("Node") ]

CreateLogEntry ==
    [ project |-> Nullable("Projects"), user |-> Nullable("User") ]

CreateFiber ==
    [ fiber_status |-> Nullable("AttributesFiberStatus"),
      flag |-> NotNull("Flags"), project |-> NotNull("Projects"),
      uuid_cable |-> NotNull("Cable") ]

CreateFeatureFiles == [ content_type |-> NotNull("ContentType") ]

CreateConduitTypeColorMapping ==
    [ color |-> NotNull("AttributesMicroductColor"),
      conduit_type |-> NotNull("AttributesConduitType") ]

AddConduitKeys ==
    [ flag |-> NotNull("Flags"),
      manufacturer |-> Nullable("AttributesCompany"),
      network_level |-> Nullable("AttributesNetworkLevel"),
      owner |-> Nullable("AttributesCompany"), project |-> NotNull("Projects"),
      status |-> Nullable("AttributesStatus") ]

CreateCanvasSyncStatus == [ started_by |-> Nullable("User") ]

CreateCableTypeColorMapping ==
    [ cable_type |-> NotNull("AttributesCableType"),
      color |-> NotNull("AttributesFiberColor") ]

CreateCableLabel == [ cable |-> NotNull("Cable") ]

AddCableKeys_0001 ==
    [ flag |-> NotNull("Flags"),
      manufacturer |-> Nullable("AttributesCompany"),
      network_level |-> Nullable("AttributesNetworkLevel"),
      owner |-> Nullable("AttributesCompany"), project |-> NotNull("Projects"),
      status |-> Nullable("AttributesStatus"),
      uuid_node_end |-> Nullable("Node"),
      uuid_node_start |-> Nullable("Node") ]

AddAttributesConduitTypeKeys ==
    [ manufacturer |-> Nullable("AttributesCompany") ]

AddAttributesCableTypeKeys == [ manufacturer |-> Nullable("AttributesCompany") ]

AddAddressKeys ==
    [ flag |-> NotNull("Flags"), project |-> NotNull("Projects"),
      status_development |-> Nullable("AttributesStatusDevelopment") ]

\* 0007_networkschema_settings
CreateNetworkSchemaSettings == [ project |-> NotNull("Projects") ]

ExcludedNodeTypes == Joining("NetworkSchemaSettings", "AttributesNodeType")

\* 0008_olarea_attributesareatype_area_area_unique_area
CreateArea ==
    [ area_type |-> NotNull("AttributesAreaType"), flag |-> NotNull("Flags"),
      project |-> NotNull("Projects") ]

\* 0015_pipebranchsettings_nodetrenchselection_and_more
CreatePipeBranchSettings == [ project |-> NotNull("Projects") ]

AllowedNodeTypes == Joining("PipeBranchSettings", "AttributesNodeType")

CreateNodeTrenchSelection ==
    [ node |-> NotNull("Node"), trench |-> NotNull("Trench") ]

\* 0021_attributescomponenttype_nodeslotconfiguration_and_more
CreateAttributesComponentType ==
    [ manufacturer |-> Nullable("AttributesCompany") ]

CreateNodeSlotConfiguration == [ uuid_node |-> NotNull("Node") ]

CreateAttributesComponentStructure ==
    [ component_type |-> NotNull("AttributesComponentType") ]

CreateNodeStructure ==
    [ component_structure |-> Nullable("AttributesComponentStructure"),
      component_type |-> Nullable("AttributesComponentType"),
      slot_configuration |-> NotNull("NodeSlotConfiguration"),
      uuid_node |-> NotNull("Node") ]

\* 0022_container_hierarchy
CreateContainer ==
    [ container_type |-> NotNull("ContainerType"),
      parent_container |-> Nullable("Container"),
      uuid_node |-> NotNull("Node") ]

AddNodeSlotConfigurationKeys == [ container |-> Nullable("Container") ]

\* 0023_add_node_slot_divider_and_clip_number
CreateNodeSlotDivider ==
    [ slot_configuration |-> NotNull("NodeSlotConfiguration") ]

CreateNodeSlotClipNumber ==
    [ slot_configuration |-> NotNull("NodeSlotConfiguration") ]

\* 0024_fiber_splice
CreateFiberSplice ==
    [ node_structure |-> NotNull("NodeStructure"),
      fiber_a |-> Nullable("Fiber"), cable_a |-> Nullable("Cable"),
      fiber_b |-> Nullable("Fiber"), cable_b |-> Nullable("Cable") ]

\* 0028_add_shared_fiber_fields
AddFiberSpliceKeys_0028 ==
    [ shared_fiber_a |-> Nullable("Fiber"),
      shared_cable_a |-> Nullable("Cable"),
      shared_fiber_b |-> Nullable("Fiber"),
      shared_cable_b |-> Nullable("Cable") ]

\* 0030_node_parent_node
AddNodeKeys == [ parent_node |-> Nullable("Node") ]

\* 0036_attributesresidentialunitstatus_and_more
AddResidentialUnitKeys ==
    [ residential_unit_type |-> Nullable("AttributesResidentialUnitType"),
      status |-> Nullable("AttributesResidentialUnitStatus"),
      uuid_address |-> NotNull("Address") ]

\* 0041_trench_conduit_connect_fk_on_delete_cascade
Cascade0041 ==
    OnDelete(CreateTrenchConduitConnection, {"uuid_trench", "uuid_conduit"}, "CASCADE")

\* 0046_networkschemasettings_child_view_enabled_node_types
ChildViewNodeTypes == Joining("NetworkSchemaSettings", "AttributesNodeType")

\* 0049_cable_parent_node_context
AddCableKeys_0049 == [ parent_node_context |-> Nullable("Node") ]

\* 0050_wms_models
AddWMSSourceKeys == [ project |-> NotNull("Projects") ]

AddWMSLayerKeys == [ source |-> NotNull("WMSSource") ]

\* 0055_add_residential_unit_to_fiber_splice
AddFiberSpliceKeys_0055 ==
    [ residential_unit_a |-> Nullable("ResidentialUnit"),
      residential_unit_b |-> Nullable("ResidentialUnit") ]

\* 0056_add_trench_conduit_canvas
CreateTrenchConduitCanvas ==
    [ conduit |-> NotNull("Conduit"), trench |-> NotNull("Trench") ]

\* 0057_add_permission_models
CreateModelPermission == [ group |-> NotNull("Group") ]

CreateRoutePermission == [ group |-> NotNull("Group") ]

\* 0060_qgisprojectdatafile
CreateQGISProjectDataFile == [ project |-> NotNull("QGISProject") ]

\* 0062_fix_node_trench_selection_cascade
Cascade0062 ==
    OnDelete(CreateNodeTrenchSelection, {"node", "trench"}, "CASCADE")

\* 0063_fix_trench_conduit_canvas_cascade
Cascade0063 ==
    OnDelete(CreateTrenchConduitCanvas, {"trench", "conduit"}, "CASCADE")

\* 0064_fix_microduct_node_set_null
SetNull0064 ==
    OnDelete(CreateMicroduct @@ AddMicroductKeys, {"uuid_node"}, "SET_NULL")

\* 0067_add_pipeline_record
CreatePipelineRecord ==
    [ project |-> NotNull("Projects"),
      type_of_work |-> Nullable("TypeOfWork") ]

\* 0069_add_request_reason
AddPipelineRecordKeys == [ request_reason |-> Nullable("RequestReason") ]

\* 0070_add_pipeline_inquiry_area
CreatePipelineInquiryArea == [ pipeline_record |-> NotNull("PipelineRecord") ]

\* 0072_add_valuation_cost_rate
CreateValuationCostRate == [ project |-> NotNull("Projects") ]

RateNodeTypes == Joining("ValuationCostRate", "AttributesNodeType")
-----------------------------------------------------------------------------
\* Tables without a foreign key, and those of Django.
Lookups0001 == {"AttributesCompany", "AttributesConstructionType", "AttributesFiberColor",
    "AttributesFiberStatus", "AttributesMicroductColor", "AttributesMicroductStatus",
    "AttributesNetworkLevel", "AttributesNodeType", "AttributesPhase", "AttributesStatus",
    "AttributesStatusDevelopment", "AttributesSurface"}
Keyless == Lookups0001 \cup {"Flags", "Projects", "AttributesAreaType", "ContainerType",
    "AttributesResidentialUnitStatus", "AttributesResidentialUnitType",
    "TypeOfWork", "RequestReason", "User", "Group", "ContentType"}

Migrated ==
    [ Address |-> AddAddressKeys,
      AttributesCableType |-> AddAttributesCableTypeKeys,
      AttributesConduitType |-> AddAttributesConduitTypeKeys,
      Cable |-> CreateCable @@ AddCableKeys_0001 @@ AddCableKeys_0049,
      Conduit |-> CreateConduit @@ AddConduitKeys, Microduct |-> SetNull0064,
      Trench |-> CreateTrench, TrenchConduitConnection |-> Cascade0041,
      QGISProject |-> CreateQGISProject, Node |-> CreateNode @@ AddNodeKeys,
      MicroductConnection |-> CreateMicroductConnection,
      MicroductCableConnection |-> CreateMicroductCableConnection,
      LogEntry |-> CreateLogEntry, Fiber |-> CreateFiber,
      FeatureFiles |-> CreateFeatureFiles,
      ConduitTypeColorMapping |-> CreateConduitTypeColorMapping,
      CanvasSyncStatus |-> CreateCanvasSyncStatus,
      CableTypeColorMapping |-> CreateCableTypeColorMapping,
      CableLabel |-> CreateCableLabel,
      NetworkSchemaSettings |-> CreateNetworkSchemaSettings,
      Area |-> CreateArea, PipeBranchSettings |-> CreatePipeBranchSettings,
      NodeTrenchSelection |-> Cascade0062,
      AttributesComponentType |-> CreateAttributesComponentType,
      NodeSlotConfiguration |-> CreateNodeSlotConfiguration @@ AddNodeSlotConfigurationKeys,
      AttributesComponentStructure |-> CreateAttributesComponentStructure,
      NodeStructure |-> CreateNodeStructure, Container |-> CreateContainer,
      NodeSlotDivider |-> CreateNodeSlotDivider,
      NodeSlotClipNumber |-> CreateNodeSlotClipNumber,
      FiberSplice |-> CreateFiberSplice @@ AddFiberSpliceKeys_0028 @@ AddFiberSpliceKeys_0055,
      ResidentialUnit |-> AddResidentialUnitKeys,
      WMSLayer |-> AddWMSLayerKeys, WMSSource |-> AddWMSSourceKeys,
      TrenchConduitCanvas |-> Cascade0063,
      ModelPermission |-> CreateModelPermission,
      RoutePermission |-> CreateRoutePermission,
      QGISProjectDataFile |-> CreateQGISProjectDataFile,
      PipelineRecord |-> CreatePipelineRecord @@ AddPipelineRecordKeys,
      PipelineInquiryArea |-> CreatePipelineInquiryArea,
      ValuationCostRate |-> CreateValuationCostRate,
      ExcludedNodeTypes |-> ExcludedNodeTypes,
      ChildViewNodeTypes |-> ChildViewNodeTypes,
      AllowedNodeTypes |-> AllowedNodeTypes, RateNodeTypes |-> RateNodeTypes ]
    @@ [t \in Keyless |-> <<>>]
-----------------------------------------------------------------------------
\* Columns copied into a history table have db_constraint=False: the
\* database knows of no foreign key.
Unconstrained(F) == [f \in F |-> FALSE]

\* Historical, but db_constraint=False is left out.
Historical_Keyed(F) == [f \in F \cup {"history_user"} |-> TRUE]

\* The history tables of django-simple-history copy the columns of a class
\* and add history_user, the user who made the change: a foreign key to the
\* user table that is constrained, without an ON DELETE clause.
Historical(F) == [f \in F \cup {"history_user"} |-> f = "history_user"]

\* 0053_historicaladdress_historicalarea_historicalcable_and_more
HistoricalAddress == Historical({"flag", "project", "status_development"})

HistoricalArea == Historical({"area_type", "flag", "project"})

HistoricalCable ==
    Historical({"cable_type", "constructor", "flag", "manufacturer",
                "network_level", "owner", "parent_node_context", "project",
                "status", "uuid_node_end", "uuid_node_start"})

HistoricalConduit ==
    Historical({"conduit_type", "constructor", "flag", "manufacturer",
                "network_level", "owner", "project", "status"})

HistoricalContainer ==
    Historical({"container_type", "parent_container", "uuid_node"})

HistoricalContainerType == Historical({})

HistoricalFiber ==
    Historical({"fiber_status", "flag", "project", "uuid_cable"})

HistoricalFiberSplice ==
    Historical({"cable_a", "cable_b", "fiber_a", "fiber_b",
                "node_structure", "shared_cable_a", "shared_cable_b",
                "shared_fiber_a", "shared_fiber_b"})

HistoricalFlags == Historical({})

HistoricalMicroduct ==
    Historical({"microduct_status", "uuid_conduit", "uuid_node"})

HistoricalNode ==
    Historical({"constructor", "flag", "manufacturer", "network_level",
                "node_type", "owner", "parent_node", "project", "status",
                "uuid_address"})

HistoricalProjects == Historical({})

HistoricalResidentialUnit ==
    Historical({"residential_unit_type", "status", "uuid_address"})

HistoricalTrench ==
    Historical({"construction_type", "constructor", "flag", "owner",
                "phase", "project", "status", "surface"})

HistoricalWMSLayer == Historical({"source"})

HistoricalWMSSource == Historical({"project"})

\* 0055_add_residential_unit_to_fiber_splice
AddHistoricalFiberSpliceKeys ==
    Unconstrained({"residential_unit_a", "residential_unit_b"})

\* 0067_add_pipeline_record
HistoricalPipelineRecord == Historical({"project", "type_of_work"})

\* 0069_add_request_reason
AddHistoricalPipelineRecordKeys == Unconstrained({"request_reason"})

\* 0070_add_pipeline_inquiry_area
HistoricalPipelineInquiryArea == Historical({"pipeline_record"})

HistoryTables ==
    [ Address |-> HistoricalAddress, Area |-> HistoricalArea,
      Cable |-> HistoricalCable, Conduit |-> HistoricalConduit,
      Container |-> HistoricalContainer,
      ContainerType |-> HistoricalContainerType, Fiber |-> HistoricalFiber,
      FiberSplice |-> HistoricalFiberSplice @@ AddHistoricalFiberSpliceKeys,
      Flags |-> HistoricalFlags, Microduct |-> HistoricalMicroduct,
      Node |-> HistoricalNode, Projects |-> HistoricalProjects,
      ResidentialUnit |-> HistoricalResidentialUnit,
      Trench |-> HistoricalTrench, WMSLayer |-> HistoricalWMSLayer,
      WMSSource |-> HistoricalWMSSource,
      PipelineRecord |-> HistoricalPipelineRecord @@ AddHistoricalPipelineRecordKeys,
      PipelineInquiryArea |-> HistoricalPipelineInquiryArea ]
=============================================================================
