SPECIFICATION EachSpec
CONSTANT
    Layouts <- MCPictures
INVARIANTS
    QpByStandard
    TreeWalked
    PlanesServe
    PredictsByStandard
    NeighboursByStandard
    SegmentsContinue
    FiltersInOrder
    FiltersWithin
