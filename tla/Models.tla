------------------------------- MODULE Models -------------------------------
(***************************************************************************)
(* The foreign keys of the classes in models.py: which class a field       *)
(* refers to, what on_delete says and whether the field may be NULL.       *)
(* Everything else a class holds is left out.                              *)
(***************************************************************************)
EXTENDS Naturals, TLC

Key(to, rule) == [to |-> to, rule |-> rule, null |-> FALSE]

Cascade(to) == Key(to, "CASCADE")
Protect(to) == Key(to, "PROTECT")
Restrict(to) == Key(to, "RESTRICT")
DoNothing(to) == Key(to, "DO_NOTHING")
Optional(key) == [key EXCEPT !.null = TRUE]
SetNull(to) == Optional(Key(to, "SET_NULL"))

\* The table Django makes for a ManyToManyField.
Through(from, to) == [ source |-> Cascade(from), target |-> Cascade(to) ]

\* Classes without a foreign key, and the ones of Django that are referred to.
Roots == {"Projects", "Flags", "ContainerType", "TypeOfWork", "RequestReason",
          "User", "Group", "ContentType"}
TrenchAttributes == {"AttributesSurface", "AttributesConstructionType",
    "AttributesStatus", "AttributesPhase", "AttributesCompany"}
NodeAttributes == {"AttributesNodeType", "AttributesNetworkLevel",
    "AttributesStatusDevelopment", "AttributesResidentialUnitType",
    "AttributesResidentialUnitStatus", "AttributesMicroductStatus"}
ColorAttributes == {"AttributesMicroductColor", "AttributesFiberStatus",
    "AttributesFiberColor", "AttributesAreaType"}
-----------------------------------------------------------------------------
NetworkSchemaSettings == [ project |-> Cascade("Projects") ]

ExcludedNodeTypes == Through("NetworkSchemaSettings", "AttributesNodeType")

ChildViewNodeTypes == Through("NetworkSchemaSettings", "AttributesNodeType")

PipeBranchSettings == [ project |-> Cascade("Projects") ]

AllowedNodeTypes == Through("PipeBranchSettings", "AttributesNodeType")

ValuationCostRate == [ project |-> Cascade("Projects") ]

RateNodeTypes == Through("ValuationCostRate", "AttributesNodeType")

WMSSource == [ project |-> Cascade("Projects") ]

WMSLayer == [ source |-> Cascade("WMSSource") ]

AttributesConduitType ==
    [ manufacturer |-> Optional(DoNothing("AttributesCompany")) ]

AttributesCableType ==
    [ manufacturer |-> Optional(DoNothing("AttributesCompany")) ]

AttributesComponentType == [ manufacturer |-> SetNull("AttributesCompany") ]

AttributesComponentStructure ==
    [ component_type |-> Cascade("AttributesComponentType") ]

FeatureFiles == [ content_type |-> Cascade("ContentType") ]

Trench ==
    [ surface |-> Cascade("AttributesSurface"),
      construction_type |-> Cascade("AttributesConstructionType"),
      status |-> Optional(Cascade("AttributesStatus")),
      phase |-> Optional(Cascade("AttributesPhase")),
      owner |-> Optional(Cascade("AttributesCompany")),
      constructor |-> Optional(Cascade("AttributesCompany")),
      project |-> Cascade("Projects"), flag |-> Cascade("Flags") ]

Conduit ==
    [ conduit_type |-> Cascade("AttributesConduitType"),
      status |-> Optional(DoNothing("AttributesStatus")),
      network_level |-> Optional(DoNothing("AttributesNetworkLevel")),
      owner |-> Optional(DoNothing("AttributesCompany")),
      constructor |-> Optional(DoNothing("AttributesCompany")),
      manufacturer |-> Optional(DoNothing("AttributesCompany")),
      project |-> DoNothing("Projects"), flag |-> DoNothing("Flags") ]

TrenchConduitConnection ==
    [ uuid_trench |-> Cascade("Trench"), uuid_conduit |-> Cascade("Conduit") ]

TrenchConduitCanvas ==
    [ trench |-> Cascade("Trench"), conduit |-> Cascade("Conduit") ]

Address ==
    [ status_development |-> Optional(DoNothing("AttributesStatusDevelopment")),
      flag |-> DoNothing("Flags"), project |-> DoNothing("Projects") ]

ResidentialUnit ==
    [ uuid_address |-> Cascade("Address"),
      residential_unit_type |-> Optional(Restrict("AttributesResidentialUnitType")),
      status |-> Optional(Restrict("AttributesResidentialUnitStatus")) ]

Node ==
    [ node_type |-> DoNothing("AttributesNodeType"),
      uuid_address |-> Optional(DoNothing("Address")),
      parent_node |-> SetNull("Node"),
      status |-> Optional(DoNothing("AttributesStatus")),
      network_level |-> Optional(DoNothing("AttributesNetworkLevel")),
      owner |-> Optional(DoNothing("AttributesCompany")),
      constructor |-> Optional(DoNothing("AttributesCompany")),
      manufacturer |-> Optional(DoNothing("AttributesCompany")),
      flag |-> DoNothing("Flags"), project |-> DoNothing("Projects") ]

NodeTrenchSelection ==
    [ node |-> Cascade("Node"), trench |-> Cascade("Trench") ]

Area ==
    [ area_type |-> DoNothing("AttributesAreaType"),
      project |-> DoNothing("Projects"), flag |-> DoNothing("Flags") ]

Microduct ==
    [ uuid_conduit |-> Cascade("Conduit"),
      microduct_status |-> SetNull("AttributesMicroductStatus"),
      uuid_node |-> SetNull("Node") ]

MicroductConnection ==
    [ uuid_microduct_from |-> Cascade("Microduct"),
      uuid_trench_from |-> Cascade("Trench"),
      uuid_microduct_to |-> Cascade("Microduct"),
      uuid_trench_to |-> Cascade("Trench"), uuid_node |-> Cascade("Node") ]

CanvasSyncStatus == [ started_by |-> Optional(Cascade("User")) ]

Cable ==
    [ cable_type |-> Cascade("AttributesCableType"),
      status |-> Optional(DoNothing("AttributesStatus")),
      network_level |-> Optional(DoNothing("AttributesNetworkLevel")),
      owner |-> Optional(DoNothing("AttributesCompany")),
      constructor |-> Optional(DoNothing("AttributesCompany")),
      manufacturer |-> Optional(DoNothing("AttributesCompany")),
      uuid_node_start |-> Optional(DoNothing("Node")),
      uuid_node_end |-> Optional(DoNothing("Node")),
      parent_node_context |-> SetNull("Node"),
      project |-> DoNothing("Projects"), flag |-> DoNothing("Flags") ]

CableLabel == [ cable |-> Cascade("Cable") ]

MicroductCableConnection ==
    [ uuid_microduct |-> Cascade("Microduct"),
      uuid_cable |-> Cascade("Cable") ]

ConduitTypeColorMapping ==
    [ conduit_type |-> Cascade("AttributesConduitType"),
      color |-> Protect("AttributesMicroductColor") ]

CableTypeColorMapping ==
    [ cable_type |-> Cascade("AttributesCableType"),
      color |-> Protect("AttributesFiberColor") ]

Fiber ==
    [ uuid_cable |-> Cascade("Cable"),
      fiber_status |-> Optional(Protect("AttributesFiberStatus")),
      flag |-> Protect("Flags"), project |-> Protect("Projects") ]

QGISProject == [ created_by |-> SetNull("User") ]

QGISProjectDataFile == [ project |-> Cascade("QGISProject") ]

LogEntry == [ user |-> SetNull("User"), project |-> SetNull("Projects") ]

NodeSlotConfiguration ==
    [ uuid_node |-> Cascade("Node"), container |-> SetNull("Container") ]

NodeStructure ==
    [ uuid_node |-> Cascade("Node"),
      slot_configuration |-> Cascade("NodeSlotConfiguration"),
      component_type |-> Optional(Cascade("AttributesComponentType")),
      component_structure |-> Optional(Cascade("AttributesComponentStructure")) ]

NodeSlotDivider == [ slot_configuration |-> Cascade("NodeSlotConfiguration") ]

NodeSlotClipNumber ==
    [ slot_configuration |-> Cascade("NodeSlotConfiguration") ]

FiberSplice ==
    [ node_structure |-> Cascade("NodeStructure"),
      fiber_a |-> Optional(Cascade("Fiber")),
      cable_a |-> Optional(Cascade("Cable")),
      fiber_b |-> Optional(Cascade("Fiber")),
      cable_b |-> Optional(Cascade("Cable")),
      shared_fiber_a |-> Optional(Cascade("Fiber")),
      shared_cable_a |-> Optional(Cascade("Cable")),
      shared_fiber_b |-> Optional(Cascade("Fiber")),
      shared_cable_b |-> Optional(Cascade("Cable")),
      residential_unit_a |-> SetNull("ResidentialUnit"),
      residential_unit_b |-> SetNull("ResidentialUnit") ]

Container ==
    [ uuid_node |-> Cascade("Node"),
      container_type |-> Protect("ContainerType"),
      parent_container |-> Optional(Cascade("Container")) ]

PipelineRecord ==
    [ project |-> Cascade("Projects"), type_of_work |-> SetNull("TypeOfWork"),
      request_reason |-> SetNull("RequestReason") ]

PipelineInquiryArea == [ pipeline_record |-> Cascade("PipelineRecord") ]

ModelPermission == [ group |-> Cascade("Group") ]

RoutePermission == [ group |-> Cascade("Group") ]
-----------------------------------------------------------------------------
ForeignKeys ==
    [ NetworkSchemaSettings |-> NetworkSchemaSettings,
      ExcludedNodeTypes |-> ExcludedNodeTypes,
      ChildViewNodeTypes |-> ChildViewNodeTypes,
      PipeBranchSettings |-> PipeBranchSettings,
      AllowedNodeTypes |-> AllowedNodeTypes,
      ValuationCostRate |-> ValuationCostRate,
      RateNodeTypes |-> RateNodeTypes, WMSSource |-> WMSSource,
      WMSLayer |-> WMSLayer, AttributesConduitType |-> AttributesConduitType,
      AttributesCableType |-> AttributesCableType,
      AttributesComponentType |-> AttributesComponentType,
      AttributesComponentStructure |-> AttributesComponentStructure,
      FeatureFiles |-> FeatureFiles, Trench |-> Trench, Conduit |-> Conduit,
      TrenchConduitConnection |-> TrenchConduitConnection,
      TrenchConduitCanvas |-> TrenchConduitCanvas, Address |-> Address,
      ResidentialUnit |-> ResidentialUnit, Node |-> Node,
      NodeTrenchSelection |-> NodeTrenchSelection, Area |-> Area,
      Microduct |-> Microduct, MicroductConnection |-> MicroductConnection,
      CanvasSyncStatus |-> CanvasSyncStatus, Cable |-> Cable,
      CableLabel |-> CableLabel,
      MicroductCableConnection |-> MicroductCableConnection,
      ConduitTypeColorMapping |-> ConduitTypeColorMapping,
      CableTypeColorMapping |-> CableTypeColorMapping, Fiber |-> Fiber,
      QGISProject |-> QGISProject,
      QGISProjectDataFile |-> QGISProjectDataFile, LogEntry |-> LogEntry,
      NodeSlotConfiguration |-> NodeSlotConfiguration,
      NodeStructure |-> NodeStructure, NodeSlotDivider |-> NodeSlotDivider,
      NodeSlotClipNumber |-> NodeSlotClipNumber, FiberSplice |-> FiberSplice,
      Container |-> Container, PipelineRecord |-> PipelineRecord,
      PipelineInquiryArea |-> PipelineInquiryArea,
      ModelPermission |-> ModelPermission, RoutePermission |-> RoutePermission ]
    @@ [t \in Roots \cup TrenchAttributes \cup NodeAttributes \cup ColorAttributes |-> <<>>]

\* The classes with a HistoricalRecords field.
Tracked == {"Projects", "WMSSource", "WMSLayer", "Flags", "Trench",
            "Conduit", "Address", "ResidentialUnit", "Node", "Area",
            "Microduct", "Cable", "Fiber", "FiberSplice", "ContainerType",
            "Container", "PipelineRecord", "PipelineInquiryArea"}

\* The classes with a receiver of post_delete, the history's among them.
WithReceiver == Tracked \cup {"MicroductCableConnection", "QGISProject",
    "QGISProjectDataFile", "ModelPermission", "RoutePermission"}
=============================================================================
