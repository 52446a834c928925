CONSTANTS
  TextOrder <- Strings
  NameOrder <- Ordered
  BadNames <- Forgeds
  BadVersions = {"bad"}
  Catalogs <- Documents
  Forgeries <- SomeForgeries
  Queries = {"ru", "RUN", " run", "x", "b", "c/d", "d", "Rscript", "rscript", "Runs", " "}
  Lower <- LowerCase
  Brief = {"ru", "x", "b", "d"}
  Begins <- Starts
  Inside <- Holding
  InName <- Paths
  Roots <- Ends
  Depths = {0, 2, 3}
SPECIFICATION CatalogueSpec
CHECK_DEADLOCK FALSE
INVARIANTS WholeTree ReasonIsShortest Browsable
