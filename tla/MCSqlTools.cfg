SPECIFICATION Spec
CONSTANTS
    erp = erp
    crm = crm
    pedidos = pedidos
    itens = itens
    Sources = {erp, crm}
    Engine <- MCEngine
    Questions <- MCQuestions
    WriteTables <- MCWriteTables
    Statements <- MCStatements
    MaxBatch = 2
    MaxWrites = 2
    MaxForeign = 1
INVARIANTS
    TypeOK
    ChildrenNameTheirParent
PROPERTY
    ReadsSeeOwnWrites
    WritesAreAtomic
CHECK_DEADLOCK FALSE
